---- MODULE Spec2Model ----
(***************************************************************************)
(* Request dispatch and tool authorization of the MCP server.              *)
(*                                                                         *)
(* The repository carries three revisions of the JSON-RPC router           *)
(* (src/src/routes.ts, the tail of src/src/toolsFolder/artifact.ts and     *)
(* src/unnamed/part_001), the gate handleToolCall / getToolsForUser they   *)
(* all call, the runtime tool registry, the MCP server object that is      *)
(* connected to the SSE channel, and the stand-alone server that predates  *)
(* the refactoring (src/src/server_not_refactore.ts).  Every one of them   *)
(* is an action here.  An action handles one inbound request from the      *)
(* first line of its handler to the response, and leaves in `last` the     *)
(* request, the response and the ordered trace of store reads and handler  *)
(* effects the request caused.                                             *)
(***************************************************************************)
EXTENDS Integers, Sequences, FiniteSets, TLC

VARIABLES
    tools,          \* toolRegistry.ts: tools (descriptor names, in load order)
    toolHandlers,   \* toolRegistry.ts: toolHandlers (names that have a handler)
    loadIdx,        \* loadAllTools: number of directory entries already visited
    files,          \* loadAllTools: what fs.readdir(toolsDir) resolved to
    origin,         \* the file each entry of tools / toolHandlers was imported from
    userTool,       \* schema.prisma: rows of model UserTool
    transport,      \* routes.ts: let transport (0 = null, n = n-th connection)
    legacyTransport,\* server_not_refactore.ts: let transport (0 = null)
    last,           \* the request being answered, its response and its trace
    accessKey,      \* schema.prisma: rows of model AccessKey
    now,            \* Date.now(), in minutes
    issued,         \* tokens the OAuth provider has issued on refresh so far
    calls,          \* the handler invocations in flight: locals, position, trace
    artifactTool    \* toolsFolder/artifact.ts: the artifacts Map, the ids
                    \* generated so far, and the handler call being answered

\* What the invocations of the provider-backed handlers read and write.
tokenVars == <<accessKey, now, issued, calls>>

vars == <<tools, toolHandlers, loadIdx, files, origin, userTool, transport,
          legacyTransport, last, accessKey, now, issued, calls, artifactTool>>

----------------------------------------------------------------------------
(* Bounds and input domains *)

MaxRows == 2        \* rows of UserTool the store holds at most
MaxConn == 2        \* SSE connections opened at most

ABSENT == "ABSENT"  \* a member that is not in the JSON object / undefined

Users == {"u1", "u2"}
UserIds == Users \cup {ABSENT}          \* req.query.userId

\* The modules found in toolsFolder, in readdir order: whether the file
\* name ends in .ts or .js, the exported descriptor name (ABSENT when the
\* module exports no tool) and whether a callable handler is exported.
ToolsDir ==
    << [script |-> TRUE, name |-> "get_weather",  handler |-> TRUE],
       [script |-> TRUE, name |-> "draft_tool",   handler |-> FALSE],
       [script |-> TRUE, name |-> "GMAIL_SENDER", handler |-> TRUE] >>

ToolIds == {"get_weather", "GMAIL_SENDER"}      \* rows of model Tool
CallNames == {"get_weather", "GMAIL_SENDER", "nosuch", ABSENT}  \* params.name

JsonRpcVals == {ABSENT, "1.0", "2.0"}
IdVals == {ABSENT, "0", "7"}
Methods == {ABSENT, "initialize", "tools/list", "tools/call",
            "resources/list", "notifications/cancelled", "bogus"}

\* params of tools/call: name, whether arguments is an object, and the
\* userId member of that object when the client has put one there.
NoParams ==
    [present |-> FALSE, name |-> ABSENT, args |-> ABSENT,
     argsUserId |-> ABSENT]
ParamVals ==
    {NoParams} \cup
    {[present |-> TRUE, name |-> n, args |-> a, argsUserId |-> ABSENT] :
        n \in CallNames, a \in {ABSENT, "OBJ"}}

\* An envelope carries params only when it names tools/call: no other
\* method of any router reads them.
Envelopes ==
    {[jsonrpc |-> j, method |-> m, id |-> i, params |-> p] :
        j \in JsonRpcVals, m \in Methods, i \in IdVals, p \in ParamVals}

AllMessages ==
    {e \in Envelopes : e.params.present => e.method = "tools/call"}

\* The routers that call handleToolCall replace params.arguments by
\* {...args, userId}, an object whatever args was: the messages posted to
\* them all carry arguments.
Messages == {e \in AllMessages : e.params.present => e.params.args = "OBJ"}

----------------------------------------------------------------------------
(* JavaScript values *)

\* `x || null` on an id: undefined, 0 and "" are falsy.
OrNull(id) == IF id \in {ABSENT, "0"} THEN "null" ELSE id

\* JSON.stringify drops an undefined member: `id: request.id` of an
\* envelope without id leaves the response without id.
Has(x) == x # ABSENT

----------------------------------------------------------------------------
(* Trace events *)

Ev(e, u, t, f) == [ev |-> e, user |-> u, tool |-> t, found |-> f]

NoResult == [kind |-> "none", tools |-> <<>>, isError |-> FALSE, text |-> <<>>]

\* An arguments value: whether it is an object, and its userId member
\* (ABSENT when it has none).  NoArgs is `undefined`.
NoArgs == [object |-> FALSE, userId |-> ABSENT]

ToolResult(k, err, txt) ==
    [kind |-> k, tools |-> <<>>, isError |-> err, text |-> txt]

\* What a callee hands back: a value or a thrown Error, and its trace.
\* `thrown` keeps the message of the Error as it was first thrown,
\* `toolArgs` the first argument a tool handler was called with.
Return(v, tr) ==
    [threw |-> FALSE, msg |-> <<>>, thrown |-> <<>>, result |-> v,
     trace |-> tr, toolArgs |-> NoArgs]
Throw(m, tr) ==
    [threw |-> TRUE, msg |-> m, thrown |-> m, result |-> NoResult,
     trace |-> tr, toolArgs |-> NoArgs]

----------------------------------------------------------------------------
(* Credential / subscription store (prisma) *)


\* Mutant of FindMany: the where clause has lost its userId member.
FindMany_AnyUser(userId) == userTool

\* The rows a prisma.userTool.findMany({where: {userId}}) returns.  Prisma
\* drops a where-member whose value is undefined, so a lookup made without
\* a userId is not filtered by user.
FindMany(userId) ==
    IF userId = ABSENT THEN userTool
    ELSE {r \in userTool : r.userId = userId}

DbError == <<"Can't reach database server">>

----------------------------------------------------------------------------
(* Tool handlers *)

\* The ways one invocation of the GMAIL_SENDER handler can go, as the
\* ordered store and provider operations it performs and how it ends.
GmailOk == {"sent", "refreshedSent", "retrySent"}
GmailRuns ==
    GmailOk \cup
    {"missingParams", "findUniqueThrows", "noRefreshToken", "refreshFailed",
     "sendFailed", "retryRefreshFailed", "retryFailed"}

\* What the environment does to one request: the subscription store is
\* unreachable, or it answers and the GMAIL_SENDER handler, if it runs, goes
\* one of its ways.
DbFails == [db |-> "fail", run |-> "sent"]
DbAnswers(run) == [db |-> "ok", run |-> run]

Envs == {DbFails} \cup {DbAnswers(r) : r \in GmailRuns}

\* The environments that can make a difference to a message: only
\* tools/list and tools/call read the store, only a call of GMAIL_SENDER
\* can run its handler.
EnvsFor(m) ==
    IF m.method = "tools/call" /\ m.params.name = "GMAIL_SENDER" THEN Envs
    ELSE IF m.method \in {"tools/list", "tools/call"}
    THEN {DbFails, DbAnswers("sent")}
    ELSE {DbAnswers("sent")}

GmailTrace(run, userId) ==
    LET E(e) == Ev(e, userId, "GMAIL_SENDER", TRUE)
        read == <<E("accessKey.findUnique")>>
        refreshed == <<E("refresh"), E("accessKey.update")>>
    IN  CASE run = "missingParams"      -> <<>>
          [] run = "findUniqueThrows"   -> read
          [] run = "noRefreshToken"     -> read
          [] run = "refreshFailed"      -> read \o <<E("refresh")>>
          [] run = "sent"               -> read \o <<E("provider")>>
          [] run = "sendFailed"         -> read \o <<E("provider")>>
          [] run = "refreshedSent"      -> read \o refreshed \o <<E("provider")>>
          [] run = "retryRefreshFailed" ->
                 read \o <<E("provider"), E("refresh")>>
          [] OTHER ->   \* retrySent, retryFailed
                 read \o <<E("provider")>> \o refreshed \o <<E("provider")>>

GmailHandler(run, userId) ==
    LET tr == <<Ev("handler", userId, "GMAIL_SENDER", TRUE)>>
              \o GmailTrace(run, userId)
    IN  IF run = "findUniqueThrows" THEN Throw(DbError, tr)
        ELSE IF run \in GmailOk
             THEN Return(ToolResult("handler", FALSE, <<"Email sent", run>>), tr)
             ELSE Return(ToolResult("handler", TRUE, <<"Failed", run>>), tr)

\* get_weather: touches no store and has no statement that can throw.
WeatherHandler(userId) ==
    Return(ToolResult("handler", FALSE, <<"Weather in", userId>>),
           <<Ev("handler", userId, "get_weather", TRUE)>>)

InvokeHandler(name, userId, run) ==
    IF name = "GMAIL_SENDER" THEN GmailHandler(run, userId)
    ELSE WeatherHandler(userId)

----------------------------------------------------------------------------
(* Authorization gate *)

\* Mutant of getToolsForUser: the commented-out `authorized: true` member of
\* the where clause is in force.
getToolsForUser_AuthorizedOnly(userId, allTools, db) ==
    IF db = "fail"
    THEN Throw(DbError, <<Ev("userTool.findMany rejected", userId, "*", FALSE)>>)
    ELSE LET subscribedToolIds ==
                 {r.toolId : r \in {x \in FindMany(userId) : x.authorized}}
         IN  Return([kind |-> "tools",
                     tools |-> SelectSeq(allTools,
                                         LAMBDA t : t \in subscribedToolIds),
                     isError |-> FALSE, text |-> <<>>],
                    <<Ev("userTool.findMany", userId, "*", TRUE)>>)

\* getToolsForUser(userId, allTools)
getToolsForUser(userId, allTools, db) ==
    LET look == Ev("userTool.findMany", userId, "*", TRUE) IN
    IF db = "fail"
    THEN Throw(DbError, <<Ev("userTool.findMany rejected", userId, "*", FALSE)>>)
    ELSE LET subscribedToolIds == {r.toolId : r \in FindMany(userId)}
             filteredTools ==
                 SelectSeq(allTools, LAMBDA t : t \in subscribedToolIds)
         IN  Return([kind |-> "tools", tools |-> filteredTools,
                     isError |-> FALSE, text |-> <<>>], <<look>>)

Denied(name) ==
    ToolResult("denied", TRUE,
               <<"Access denied. Tool ", name,
                 " is not subscribed for this user.">>)

\* Mutant of handleToolCall: the `if (!handler)` test is gone, so a name
\* without handler is called and the call throws a TypeError.
handleToolCall_NoHandlerTest(name, args, db, run) ==
    LET userId == args.userId
        toolArgs == [args EXCEPT !.userId = ABSENT]
    IN
    IF ~args.object
    THEN Return(ToolResult("noargs", TRUE,
                           <<"No arguments provided for tool: ", name>>), <<>>)
    ELSE IF db = "fail"
    THEN Throw(DbError,
               <<Ev("userTool.findMany rejected", userId, name, FALSE)>>)
    ELSE LET allowedTools == {r.toolId : r \in FindMany(userId)}
             look == Ev("userTool.findMany", userId, name,
                        name \in allowedTools)
         IN  IF name \notin allowedTools
             THEN Return(Denied(name), <<look>>)
             ELSE IF name \notin toolHandlers
             THEN Throw(<<"handler is not a function">>, <<look>>)
             ELSE LET h == InvokeHandler(name, userId, run)
                  IN  [h EXCEPT !.trace = <<look>> \o @,
                               !.toolArgs = toolArgs]

\* Mutant of handleToolCall: only rows with authorized = true allow a call.
handleToolCall_AuthorizedOnly(name, args, db, run) ==
    LET userId == args.userId
        toolArgs == [args EXCEPT !.userId = ABSENT]
    IN
    IF ~args.object
    THEN Return(ToolResult("noargs", TRUE,
                           <<"No arguments provided for tool: ", name>>), <<>>)
    ELSE IF db = "fail"
    THEN Throw(DbError,
               <<Ev("userTool.findMany rejected", userId, name, FALSE)>>)
    ELSE LET allowedTools ==
                 {r.toolId : r \in {x \in FindMany(userId) : x.authorized}}
             look == Ev("userTool.findMany", userId, name,
                        name \in allowedTools)
         IN  IF name \notin allowedTools
             THEN Return(Denied(name), <<look>>)
             ELSE IF name \notin toolHandlers
             THEN Return(ToolResult("notimpl", TRUE,
                                    <<"Tool ", name, " is not implemented.">>),
                         <<look>>)
             ELSE LET h == InvokeHandler(name, userId, run)
                  IN  [h EXCEPT !.trace = <<look>> \o @,
                               !.toolArgs = toolArgs]

\* handleToolCall(name, args): `const { userId, ...toolArgs } = args`, the
\* lookup for userId, and `handler(toolArgs, userId)`.
handleToolCall(name, args, db, run) ==
    LET userId == args.userId
        toolArgs == [args EXCEPT !.userId = ABSENT]
    IN
    IF ~args.object
    THEN Return(ToolResult("noargs", TRUE,
                           <<"No arguments provided for tool: ", name>>), <<>>)
    ELSE IF db = "fail"
    THEN Throw(DbError,
               <<Ev("userTool.findMany rejected", userId, name, FALSE)>>)
    ELSE LET allowedTools == {r.toolId : r \in FindMany(userId)}
             look == Ev("userTool.findMany", userId, name,
                        name \in allowedTools)
         IN  IF name \notin allowedTools
             THEN Return(Denied(name), <<look>>)
             ELSE IF name \notin toolHandlers
             THEN Return(ToolResult("notimpl", TRUE,
                                    <<"Tool ", name, " is not implemented.">>),
                         <<look>>)
             ELSE LET h == InvokeHandler(name, userId, run)
                  IN  [h EXCEPT !.trace = <<look>> \o @,
                               !.toolArgs = toolArgs]

----------------------------------------------------------------------------
(* HTTP responses *)

NoResponse ==
    [status |-> 0, kind |-> "none", code |-> 0, message |-> <<>>,
     id |-> ABSENT, result |-> NoResult]

ErrorResponse(status, code, message, id) ==
    [status |-> status, kind |-> "error", code |-> code, message |-> message,
     id |-> id, result |-> NoResult]

ResultResponse(result, id) ==
    [status |-> 200, kind |-> "result", code |-> 0, message |-> <<>>,
     id |-> id, result |-> result]

Empty204 ==
    [status |-> 204, kind |-> "empty", code |-> 0, message |-> <<>>,
     id |-> ABSENT, result |-> NoResult]

InitializeResult ==
    [kind |-> "initialize", tools |-> <<>>, isError |-> FALSE, text |-> <<>>]

EmptyListResult ==
    [kind |-> "emptyList", tools |-> <<>>, isError |-> FALSE, text |-> <<>>]

\* What a router hands to the action: the response and the trace; `via`
\* is the SSE transport the message was handed to (0: none).
Handled(resp, tr) ==
    [resp |-> resp, trace |-> tr, thrown |-> <<>>, via |-> 0,
     toolArgs |-> NoArgs]

\* Mutant of Settle: a tool result with isError is sent as a JSON-RPC error.
Settle_IsErrorAsRpcError(out, id) ==
    IF out.threw \/ out.result.isError
    THEN [Handled(ErrorResponse(500, -32603,
                                IF out.threw THEN out.msg ELSE out.result.text,
                                id), out.trace)
            EXCEPT !.thrown = out.thrown]
    ELSE Handled(ResultResponse(out.result, id), out.trace)

\* `const { name, arguments: args } = request.params`
Arguments(params) ==
    [object |-> params.args # ABSENT, userId |-> params.argsUserId]

\* Mutant of argsWithUser: `{ userId, ...args }`, a member of the client's
\* arguments replaces the one of the query string.
argsWithUser_ClientWins(args, userId) ==
    IF args.object /\ args.userId # ABSENT
    THEN args
    ELSE [object |-> TRUE, userId |-> userId]

\* `{ ...args, userId }`: the members of args, then userId from the query
\* string, which replaces a member of that name; always an object.
argsWithUser(args, userId) ==
    LET spread == [args EXCEPT !.object = TRUE]
    IN  [spread EXCEPT !.userId = userId]

\* The try/catch around the method switch: a value becomes the success
\* response, a thrown Error the -32603 response; both carry request.id.
Settle(out, id) ==
    IF out.threw
    THEN [Handled(ErrorResponse(500, -32603, out.msg, id), out.trace)
            EXCEPT !.thrown = out.thrown, !.toolArgs = out.toolArgs]
    ELSE [Handled(ResultResponse(out.result, id), out.trace)
            EXCEPT !.toolArgs = out.toolArgs]

\* Mutant of Rethrow: the new Error carries the prefix only.
Rethrow_DropsMessage(prefix, out) ==
    IF out.threw THEN [out EXCEPT !.msg = <<prefix>>] ELSE out

\* An inner catch that rethrows `new Error(prefix + error.message)`.
Rethrow(prefix, out) ==
    IF out.threw THEN [out EXCEPT !.msg = <<prefix>> \o @] ELSE out

----------------------------------------------------------------------------
(* POST /mcp: src/src/routes.ts *)

RoutesPostMcp(userId, m, db, run) ==
    IF m.jsonrpc # "2.0"
    THEN Handled(ErrorResponse(400, -32600,
                   <<"Invalid Request - missing or invalid jsonrpc field">>,
                   OrNull(m.id)), <<>>)
    ELSE IF Has(m.method) /\ Has(m.id)
    THEN Settle(
           CASE m.method = "initialize" -> Return(InitializeResult, <<>>)
             [] m.method = "tools/list" -> getToolsForUser(userId, tools, db)
             [] m.method = "tools/call" ->
                  IF ~m.params.present
                  THEN Throw(<<"Missing parameters for tools/call">>, <<>>)
                  ELSE handleToolCall(m.params.name,
                                      argsWithUser(Arguments(m.params), userId),
                                      db, run)
             [] OTHER -> Throw(<<"Method not found: ", m.method>>, <<>>),
           m.id)
    ELSE IF Has(m.method)
    THEN Handled(Empty204, <<>>)
    ELSE Handled(ErrorResponse(400, -32600,
                   <<"Invalid Request - missing method">>, OrNull(m.id)), <<>>)

----------------------------------------------------------------------------
(* POST /mcp: the router at the end of src/src/toolsFolder/artifact.ts *)

ArtifactPostMcp(userId, m, db, run) ==
    IF Has(m.method) /\ Has(m.id)
    THEN Settle(
           CASE m.method = "initialize" -> Return(InitializeResult, <<>>)
             [] m.method = "tools/list" -> getToolsForUser(userId, tools, db)
             [] m.method = "tools/call" ->
                  IF ~m.params.present
                  THEN Throw(<<"Missing parameters for tools/call">>, <<>>)
                  ELSE handleToolCall(m.params.name,
                                      argsWithUser(Arguments(m.params), userId),
                                      db, run)
             [] OTHER -> Throw(<<"Method not found: ", m.method>>, <<>>),
           m.id)
    ELSE IF Has(m.method)
    THEN Handled(Empty204, <<>>)
    ELSE Handled(ErrorResponse(400, -32600,
                   <<"Invalid Request - missing method">>, OrNull(m.id)), <<>>)

----------------------------------------------------------------------------
(* POST /mcp: src/unnamed/part_001 *)

Part001PostMcp(userId, m, db, run) ==
    IF userId = ABSENT
    THEN Handled(ErrorResponse(400, -32602,
                   <<"Missing required userId parameter">>, OrNull(m.id)),
                 <<>>)
    ELSE IF Has(m.method) /\ Has(m.id)
    THEN Settle(
           CASE m.method = "initialize" -> Return(InitializeResult, <<>>)
             [] m.method = "tools/list" ->
                  Rethrow("Failed to get tools for user: ",
                          getToolsForUser(userId, tools, db))
             [] m.method = "tools/call" ->
                  IF ~m.params.present
                  THEN Throw(<<"Missing parameters for tools/call">>, <<>>)
                  ELSE IF m.params.name = ABSENT
                  THEN Throw(<<"Missing tool name in tools/call">>, <<>>)
                  ELSE Rethrow("Tool execution failed: ",
                               handleToolCall(m.params.name,
                                   argsWithUser(Arguments(m.params), userId),
                                   db, run))
             [] m.method \in {"resources/list", "prompts/list"} ->
                  Return(EmptyListResult, <<>>)
             [] OTHER -> Throw(<<"Method not found: ", m.method>>, <<>>),
           m.id)
    ELSE IF Has(m.method)
    THEN Handled(Empty204, <<>>)
    ELSE Handled(ErrorResponse(400, -32600,
                   <<"Invalid Request - missing method">>, OrNull(m.id)), <<>>)

----------------------------------------------------------------------------
(* src/src/server_not_refactore.ts: the server before the refactoring *)

LegacyTools == <<"get_weather", "calculate", "get_time">>

\* The tool switch shared by its CallToolRequestSchema handler and its
\* handleToolCall: no store is read, the tool code runs in place.
LegacyRunTool(name, args) ==
    IF args = ABSENT
    THEN Return(ToolResult("noargs", TRUE,
                           <<"No arguments provided for tool: ", name>>), <<>>)
    ELSE IF name \in {"get_weather", "calculate", "get_time"}
    THEN Return(ToolResult("handler", FALSE, <<"Legacy result of", name>>),
                <<Ev("handler", ABSENT, name, TRUE)>>)
    ELSE Throw(<<"Unknown tool: ", name>>, <<>>)

LegacyPostMcp(m) ==
    IF m.jsonrpc # "2.0"
    THEN Handled(ErrorResponse(400, -32600,
                   <<"Invalid Request - missing or invalid jsonrpc field">>,
                   OrNull(m.id)), <<>>)
    ELSE IF Has(m.method) /\ Has(m.id)
    THEN Settle(
           CASE m.method = "initialize" -> Return(InitializeResult, <<>>)
             [] m.method = "tools/list" ->
                  Return([kind |-> "tools", tools |-> LegacyTools,
                          isError |-> FALSE, text |-> <<>>], <<>>)
             [] m.method = "tools/call" ->
                  IF ~m.params.present
                  THEN Throw(<<"Missing parameters for tools/call">>, <<>>)
                  ELSE LegacyRunTool(m.params.name, m.params.args)
             [] OTHER -> Throw(<<"Method not found: ", m.method>>, <<>>),
           m.id)
    ELSE IF Has(m.method)
    THEN Handled(Empty204, <<>>)
    ELSE Handled(ErrorResponse(400, -32600,
                   <<"Invalid Request - missing method">>, OrNull(m.id)), <<>>)

----------------------------------------------------------------------------
(* The MCP server object connected to the SSE channel *)

\* src/src/mcpServer.ts registers InitializeRequestSchema and
\* ListToolsRequestSchema only; the SDK answers a request for which no
\* handler is registered with -32601 and drops notifications.
McpServerMessage(m) ==
    IF ~Has(m.method) \/ ~Has(m.id)
    THEN Handled(NoResponse, <<>>)
    ELSE IF m.method = "initialize"
    THEN Handled(ResultResponse(InitializeResult, m.id), <<>>)
    ELSE IF m.method = "tools/list"
    THEN Handled(ResultResponse([kind |-> "tools", tools |-> tools,
                                 isError |-> FALSE, text |-> <<>>], m.id),
                 <<>>)
    ELSE Handled(ErrorResponse(200, -32601, <<"Method not found">>, m.id),
                 <<>>)

\* src/src/server_not_refactore.ts registers a CallToolRequestSchema handler
\* too; the SDK turns an Error thrown by a handler into a -32603 response.
LegacyServerMessage(m) ==
    IF ~Has(m.method) \/ ~Has(m.id)
    THEN Handled(NoResponse, <<>>)
    ELSE IF m.method = "initialize"
    THEN Handled(ResultResponse(InitializeResult, m.id), <<>>)
    ELSE IF m.method = "tools/list"
    THEN Handled(ResultResponse([kind |-> "tools", tools |-> LegacyTools,
                                 isError |-> FALSE, text |-> <<>>], m.id),
                 <<>>)
    ELSE IF m.method = "tools/call" /\ m.params.present
    THEN LET out == LegacyRunTool(m.params.name, m.params.args) IN
         IF out.threw
         THEN Handled(ErrorResponse(200, -32603, out.msg, m.id), out.trace)
         ELSE Handled(ResultResponse(out.result, m.id), out.trace)
    ELSE Handled(ErrorResponse(200, -32601, <<"Method not found">>, m.id),
                 <<>>)

\* router.post("/messages"): without a transport the POST is refused.
NoSseConnection ==
    [status |-> 400, kind |-> "http", code |-> 0,
     message |-> <<"No SSE connection established">>,
     id |-> ABSENT, result |-> NoResult]

----------------------------------------------------------------------------
(* Request bodies that are not a JSON object *)

NoMessage ==
    [jsonrpc |-> ABSENT, method |-> ABSENT, id |-> ABSENT, params |-> NoParams]

\* What a client can post instead of a JSON object: text that is not JSON,
\* a JSON string, number, boolean or null, a JSON array, or a body whose
\* Content-Type is not application/json.
Bodies == {"malformed", "primitive", "array", "not json"}

\* The major versions of Express the server can be built with.
ExpressVersions == {4, 5}

\* app.use(express.json()) of server.ts: the parser is strict, so it passes
\* a SyntaxError to next() for anything that is not an object or an array;
\* no error middleware is installed, and Express answers with its own 400
\* page.  A body of another content type is not parsed: req.body is {} in
\* Express 4 and undefined in Express 5.  "rejected", or what req.body is.
ExpressJson(body, version) ==
    CASE body \in {"malformed", "primitive"} -> "rejected"
      [] body = "array" -> "no members"
      [] OTHER -> IF version = 4 THEN "no members" ELSE "undefined"

BodyParserError ==
    [status |-> 400, kind |-> "http", code |-> 0,
     message |-> <<"SyntaxError">>, id |-> ABSENT, result |-> NoResult]

\* The outer catch of a router.
ParseError(message) == ErrorResponse(400, -32700, message, "null")

\* POST /mcp of the three routers with such a body: reading a member of
\* undefined throws a TypeError that the outer catch receives; an array
\* and {} have none of the members of an envelope.
RawPostMcp(router, userId, body, version, db) ==
    LET parsed == ExpressJson(body, version) IN
    IF parsed = "rejected" THEN Handled(BodyParserError, <<>>)
    ELSE IF parsed = "undefined"
    THEN CASE router = "routes.ts" ->
                Handled(ParseError(<<"Parse error">>), <<>>)
           [] router = "artifact.ts" ->
                Handled(ParseError(<<"Parse error or invalid request">>), <<>>)
           [] OTHER ->
                IF userId = ABSENT
                THEN Part001PostMcp(userId, NoMessage, db, "sent")
                ELSE Handled(ParseError(<<"Parse error or invalid request">>),
                             <<>>)
    ELSE CASE router = "routes.ts" ->
                RoutesPostMcp(userId, NoMessage, db, "sent")
           [] router = "artifact.ts" ->
                ArtifactPostMcp(userId, NoMessage, db, "sent")
           [] OTHER -> Part001PostMcp(userId, NoMessage, db, "sent")

----------------------------------------------------------------------------
(* Provider-backed handlers: credentials, provider answers, locals *)

(* The repository carries the GMAIL_SENDER handler in four revisions       *)
(* (src/src/toolsFolder/GMAIL_SENDER.ts, the one appended to               *)
(* src/src/server.ts, the one appended to src/src/routes.ts and            *)
(* handleGmailSender of src/src/testtool.ts), the                          *)
(* CALENDAR_EVENT_CREATOR handler (src/unnamed/part_002) and the           *)
(* GOOGLE_ANALYTICS_REPORTER handler (end of                               *)
(* src/src/server_not_refactore.ts).  An invocation is followed from one   *)
(* await to the next: the store read, the refresh call, the store write    *)
(* and the provider call are steps of their own.                           *)

MaxCreds == 1       \* rows of AccessKey the store holds at most
MaxNow == 1         \* minutes the clock advances at most
MaxRefresh == 2     \* refreshes the OAuth provider grants at most

GuardWindow == 5    \* routes.ts:183  5 * 60 * 1000 ms
HourLifetime == 60  \* routes.ts:201  3600 * 1000 ms

Handlers ==
    {"GMAIL_SENDER.ts", "server.ts", "routes.ts", "part_002",
     "server_not_refactore.ts", "testtool.ts"}

\* The handlers that refresh only after the provider has refused a call;
\* the three are the same code but for the tool they serve.
Reactive == {"server.ts", "part_002", "server_not_refactore.ts"}

\* toolId of the AccessKey row a handler reads and updates.
ToolOf(h) ==
    CASE h = "part_002" -> "CALENDAR_EVENT_CREATOR"
      [] h = "server_not_refactore.ts" -> "GOOGLE_ANALYTICS_REPORTER"
      [] OTHER -> "GMAIL_SENDER"

CredTools ==
    {"GMAIL_SENDER", "CALENDAR_EVENT_CREATOR", "GOOGLE_ANALYTICS_REPORTER"}

\* The users who have been through the OAuth flow; the invocations of the
\* others find no row.
Grantees == {"u1"}

\* Tokens are numbered: 0 is the empty access token / the null refresh
\* token, 1 the token the OAuth callback stored, 1 + k the one the k-th
\* granted refresh issued.
NoToken == 0
StoredToken == 1

\* The expiry dates the OAuth callback stores: one that has passed when the
\* server starts, one that leaves the guard window after a minute.
ExpiryDates == {0, GuardWindow + 1}

NoRow ==
    [userId |-> ABSENT, toolId |-> ABSENT, accessToken |-> NoToken,
     refreshToken |-> NoToken, expiryDate |-> 0]

\* prisma.accessKey.findUnique({where: {userId_toolId: {userId, toolId}}}):
\* the row, or null.
FindUnique(userId, toolId) ==
    IF \E r \in accessKey : r.userId = userId /\ r.toolId = toolId
    THEN CHOOSE r \in accessKey : r.userId = userId /\ r.toolId = toolId
    ELSE NoRow

\* Errors of the provider: the code and the message of the thrown object.
NoError == [code |-> 0, message |-> "none"]
Err(c, m) == [code |-> c, message |-> m]

ProviderErrors ==
    {Err(401, "Invalid Credentials"), Err(403, "Insufficient Permission"),
     Err(400, "invalid_grant"), Err(400, "invalid_client"),
     Err(500, "unauthorized"), Err(500, "forbidden"),
     Err(429, "Quota exceeded")}

\* The retried call is inside a try whose catch does not look at the error.
RetryErrors == {Err(401, "Invalid Credentials"), Err(429, "Quota exceeded")}

RefreshRejected == Err(400, "invalid_grant")
NoAccessTokenReceived == Err(0, "No access token received from refresh")
UpdateRejected == Err(0, "Can't reach database server")

\* message.includes(word)
Includes(message, word) == message = word

\* What oauth2Client.refreshAccessToken() resolves to: credentials with or
\* without access_token, with or without a new refresh_token, with or
\* without an expiry_date (the lifetime the provider declares, in minutes).
DeclaredLifetimes == {0, 30}
RefreshAnswers ==
    {[ok |-> FALSE, access |-> FALSE, rotate |-> FALSE, lifetime |-> 0]} \cup
    {[ok |-> TRUE, access |-> FALSE, rotate |-> FALSE, lifetime |-> 0]} \cup
    {[ok |-> TRUE, access |-> TRUE, rotate |-> r, lifetime |-> 0] :
        r \in BOOLEAN} \cup
    {[ok |-> TRUE, access |-> TRUE, rotate |-> FALSE, lifetime |-> l] :
        l \in DeclaredLifetimes}

\* One step of an invocation, as the properties see it: the operation, the
\* clock, the token it was made with (provider: access token, refresh:
\* refresh token), what came back and the AccessKey row once it was over.
TEv(e, tok, err, newAT, newRT, life, row) ==
    [ev |-> e, at |-> now, token |-> tok, error |-> err,
     access |-> newAT, refresh |-> newRT, lifetime |-> life, row |-> row]

Slots == {1, 2}

NoCall ==
    [pc |-> "idle", h |-> "none", userId |-> ABSENT, configured |-> TRUE,
     complete |-> TRUE, phase |-> "none", accessToken |-> NoToken, refreshToken |-> NoToken,
     newAccessToken |-> NoToken, newRefreshToken |-> NoToken,
     expiryDate |-> 0, trace |-> <<>>, out |-> Return(NoResult, <<>>)]

----------------------------------------------------------------------------
(* Provider-backed handlers: the code between two awaits *)

Reauth == "Please re-authenticate"
AuthenticateFirst == "Please authenticate first"

Finish(c, out) == [c EXCEPT !.pc = "done", !.out = out]
Fail(c, kind, text) == Finish(c, Return(ToolResult(kind, TRUE, text), <<>>))
Succeed(c, kind, text) == Finish(c, Return(ToolResult(kind, FALSE, text), <<>>))

Log(c, e) == [c EXCEPT !.trace = Append(@, e)]

\* shouldRefreshToken(expiryDate); AccessKey.expiryDate is not nullable, so
\* the `!expiryDate` branch is not taken.
shouldRefreshToken(expiryDate) == expiryDate <= now + GuardWindow

\* Mutant of isAuthError: every error that carries an HTTP code counts as
\* an authentication error.
isAuthError_AnyCode(h, error) ==
    h \notin {"GMAIL_SENDER.ts", "testtool.ts"} /\ error.code # 0

\* The test each handler applies to the error of its first provider call:
\* isAuthError of routes.ts, the condition of the `if` in the catch of the
\* reactive handlers; GMAIL_SENDER.ts and testtool.ts have no such test.
isAuthError(h, error) ==
    CASE h = "routes.ts" ->
           \/ error.code = 401
           \/ error.code = 403
           \/ Includes(error.message, "invalid_client")
           \/ Includes(error.message, "invalid_grant")
           \/ Includes(error.message, "unauthorized")
           \/ Includes(error.message, "forbidden")
      [] h \in Reactive ->
           \/ error.code = 401
           \/ Includes(error.message, "invalid_grant")
      [] OTHER -> FALSE

\* handler(args, userId) up to its first await.
Enter(h, userId, complete, configured) ==
    LET c == [NoCall EXCEPT !.h = h, !.userId = userId,
                            !.configured = configured,
                            !.complete = complete]
    IN  IF h = "testtool.ts"   \* getAccessKey(userId ?? "", ...) comes first
        THEN [c EXCEPT !.pc = "findUnique"]
        ELSE IF ~complete \/ userId = ABSENT
        THEN Fail(c, "missingParams", <<"Missing required parameters">>)
        ELSE IF h = "routes.ts" /\ ~configured
        THEN Fail(c, "configError",
                  <<"Server configuration error: Google OAuth credentials not set.">>)
        ELSE [c EXCEPT !.pc = "findUnique"]

\* From the row findUnique resolved to, up to the next await.
AfterFindUnique(c, row) ==
    LET found == row # NoRow
        accessToken == IF found THEN row.accessToken ELSE NoToken
        refreshToken == IF found THEN row.refreshToken ELSE NoToken
        d == [c EXCEPT !.accessToken = accessToken,
                       !.refreshToken = refreshToken]
    IN  CASE c.h = "routes.ts" ->
               IF refreshToken = NoToken
               THEN Fail(c, "noRefreshToken",
                         <<"No refresh token found. ", AuthenticateFirst>>)
               ELSE IF shouldRefreshToken(row.expiryDate)
                       \/ accessToken = NoToken
               THEN [d EXCEPT !.pc = "refresh", !.phase = "proactive"]
               ELSE [d EXCEPT !.pc = "send", !.phase = "first"]
          [] c.h \in Reactive ->
               IF accessToken = NoToken /\ refreshToken = NoToken
               THEN Fail(c, "noTokens",
                         <<"No access or refresh token found. ",
                           AuthenticateFirst>>)
               ELSE IF c.h = "part_002" /\ ~c.configured
               THEN Fail(c, "configError",
                         <<"Server configuration error: Google OAuth credentials not set.">>)
               ELSE [d EXCEPT !.pc = "send", !.phase = "first"]
          [] c.h = "testtool.ts" ->
               IF ~found   \* getAccessKey throws, nothing catches
               THEN Finish(c, Throw(<<"No access key found">>, <<>>))
               ELSE IF ~c.complete \/ accessToken = NoToken
               THEN Fail(c, "missingParams",
                         <<"Missing parameters: toMail, subject, body, ",
                           "or accessToken.">>)
               ELSE [d EXCEPT !.pc = "send", !.phase = "first"]
          [] OTHER ->   \* GMAIL_SENDER.ts
               IF accessToken = NoToken
               THEN Fail(c, "noAccessToken",
                         <<"No access token found. ", AuthenticateFirst>>)
               ELSE [d EXCEPT !.pc = "send", !.phase = "first"]

\* The catch that receives a failed refresh, a failed store write or a
\* failed retry.
RefreshCatch(c, kind, wrapped, error) ==
    LET msg == IF wrapped /\ c.h = "routes.ts"
               THEN <<"Token refresh failed: ", error.message>>
               ELSE <<error.message>>
    IN  IF c.h = "routes.ts" /\ c.phase = "proactive"
        THEN Fail(c, kind, <<"Failed to refresh token: ">> \o msg \o <<Reauth>>)
        ELSE IF c.h = "routes.ts"
        THEN Fail(c, kind,
                  <<"Authentication failed and token refresh unsuccessful: ">>
                  \o msg \o <<Reauth>>)
        ELSE Fail(c, kind,
                  <<"Failed to refresh token or to call after refresh: ">>
                  \o msg \o <<Reauth>>)

\* Mutant of AfterRefresh: the test of the received access token is gone.
AfterRefresh_NoTokenTest(c, ans, newAccessToken, newRefreshToken) ==
    IF ~ans.ok THEN RefreshCatch(c, "refreshFailed", TRUE, RefreshRejected)
    ELSE [c EXCEPT !.pc = "update",
                   !.newAccessToken = newAccessToken,
                   !.newRefreshToken = newRefreshToken,
                   !.expiryDate = now + HourLifetime]

\* Mutant of AfterRefresh: the new token is used for the provider call
\* without being written to the store.
AfterRefresh_UsesTokenUnwritten(c, ans, newAccessToken, newRefreshToken) ==
    IF ~ans.ok THEN RefreshCatch(c, "refreshFailed", TRUE, RefreshRejected)
    ELSE IF newAccessToken = NoToken
    THEN RefreshCatch(c, "refreshFailed", TRUE, NoAccessTokenReceived)
    ELSE IF c.phase = "proactive"
    THEN [c EXCEPT !.accessToken = newAccessToken,
                   !.newAccessToken = newAccessToken,
                   !.newRefreshToken = newRefreshToken,
                   !.pc = "send", !.phase = "first"]
    ELSE [c EXCEPT !.newAccessToken = newAccessToken,
                   !.newRefreshToken = newRefreshToken,
                   !.pc = "send", !.phase = "retry"]

\* From the answer of oauth2Client.refreshAccessToken() to the store write.
AfterRefresh(c, ans, newAccessToken, newRefreshToken) ==
    IF ~ans.ok THEN RefreshCatch(c, "refreshFailed", TRUE, RefreshRejected)
    ELSE IF newAccessToken = NoToken
    THEN RefreshCatch(c, "refreshFailed", TRUE, NoAccessTokenReceived)
    ELSE [c EXCEPT !.pc = "update",
                   !.newAccessToken = newAccessToken,
                   !.newRefreshToken = newRefreshToken,
                   !.expiryDate = now + HourLifetime]

\* Mutant of UpdateData: the write is conditional on the row still holding
\* the access token the handler read (compare-and-set).
UpdateData_OnlyIfUnchanged(c, row) ==
    IF row.accessToken # c.accessToken THEN row
    ELSE [row EXCEPT !.accessToken = c.newAccessToken,
                     !.refreshToken = IF c.newRefreshToken # NoToken
                                      THEN c.newRefreshToken
                                      ELSE c.refreshToken,
                     !.expiryDate = IF c.h = "routes.ts" THEN c.expiryDate
                                    ELSE @]

\* The data of prisma.accessKey.update: only routes.ts writes expiryDate.
UpdateData(c, row) ==
    [row EXCEPT !.accessToken = c.newAccessToken,
                !.refreshToken = IF c.newRefreshToken # NoToken
                                 THEN c.newRefreshToken ELSE c.refreshToken,
                !.expiryDate = IF c.h = "routes.ts" THEN c.expiryDate ELSE @]

\* From the settled store write to the provider call that follows it.
AfterUpdate(c) ==
    IF c.phase = "proactive"
    THEN [c EXCEPT !.accessToken = c.newAccessToken,
                   !.pc = "send", !.phase = "first"]
    ELSE [c EXCEPT !.pc = "send", !.phase = "retry"]

\* Mutant of AfterSend: a failed retry is classified like a first failure.
AfterSend_RetriesAgain(c, error) ==
    IF error = NoError
    THEN Succeed(c, "sent", <<"Sent">>)
    ELSE IF isAuthError(c.h, error) /\ c.refreshToken # NoToken
    THEN [c EXCEPT !.pc = "refresh", !.phase = "reactive"]
    ELSE Fail(c, "generalError", <<"Failed: ", error.message>>)

\* Mutant of AfterSend: the retry's success is not returned, and control
\* falls through to the return of the general error.
AfterSend_RetryFallsThrough(c, error) ==
    IF error = NoError /\ c.phase = "first"
    THEN Succeed(c, "sent", <<"Sent">>)
    ELSE IF c.phase = "retry"
    THEN RefreshCatch(c, "retryFailed", FALSE, error)
    ELSE IF isAuthError(c.h, error)
            /\ (c.h = "routes.ts" => c.refreshToken # NoToken)
    THEN IF c.refreshToken = NoToken
         THEN Fail(c, "expiredNoRefreshToken",
                   <<"Access token expired and no refresh token found. ",
                     Reauth>>)
         ELSE [c EXCEPT !.pc = "refresh", !.phase = "reactive"]
    ELSE Fail(c, "generalError", <<"Failed: ", error.message>>)

\* From the settled provider call to the return or to the next await.
AfterSend(c, error) ==
    IF error = NoError
    THEN IF c.phase = "first"
         THEN Succeed(c, "sent", <<"Sent">>)
         ELSE Succeed(c, "sentAfterRefresh", <<"Sent after token refresh">>)
    ELSE IF c.phase = "retry"
    THEN RefreshCatch(c, "retryFailed", FALSE, error)
    ELSE IF isAuthError(c.h, error)
            /\ (c.h = "routes.ts" => c.refreshToken # NoToken)
    THEN IF c.refreshToken = NoToken
         THEN Fail(c, "expiredNoRefreshToken",
                   <<"Access token expired and no refresh token found. ",
                     Reauth>>)
         ELSE [c EXCEPT !.pc = "refresh", !.phase = "reactive"]
    ELSE Fail(c, "generalError", <<"Failed: ", error.message>>)

----------------------------------------------------------------------------
(* The manage_artifact tool: src/src/toolsFolder/artifact.ts *)

MaxArtifacts == 2   \* artifacts created in one run
MaxStamp == 1       \* Date.now() takes the values 0..MaxStamp

\* A content that is a JSON number: truthy, and without a slice method.
NotAString == "#5"

Titles == {ABSENT, "t1", "t2"}
Types == {ABSENT, "code"}
Contents == {ABSENT, "c1", NotAString}

\* An id argument: 0 stands for a missing id, 1..MaxArtifacts for the ids
\* that create can have generated, MaxArtifacts + 1 for any other string.
ArgIds == 0..(MaxArtifacts + 1)

Actions == {"create", "update", "get", "delete", "list", "purge"}

NoArtifactArgs ==
    [action |-> ABSENT, id |-> 0, title |-> ABSENT, type |-> ABSENT,
     content |-> ABSENT]

\* The argument objects that differ in a member their action reads.
ArtifactArgs ==
    {[NoArtifactArgs EXCEPT !.action = "create", !.title = t, !.type = y,
                            !.content = c] :
        t \in Titles, y \in Types, c \in Contents}
    \cup
    {[NoArtifactArgs EXCEPT !.action = "update", !.id = i, !.title = t,
                            !.type = y, !.content = c] :
        i \in ArgIds, t \in Titles, y \in Types, c \in Contents}
    \cup
    {[NoArtifactArgs EXCEPT !.action = a, !.id = i] :
        a \in {"get", "delete"}, i \in ArgIds}
    \cup
    {[NoArtifactArgs EXCEPT !.action = a] : a \in {"list", "purge"}}

\* What a result text shows of an artifact; content is ABSENT where the
\* text has no content in it.
Shown(a, content) ==
    [id |-> a.id, title |-> a.title, content |-> content, owner |-> a.userId]

\* A returned `{ content: [{ type: "text", text }] }`: the kind of text,
\* the userPrefix it starts with, and the artifacts it shows.
ArtifactText(kind, userId, shows) ==
    [kind |-> kind, prefix |-> userId, shows |-> shows]

ArtifactError(kind, userId) == ArtifactText(kind, userId, <<>>)

NoArtifactText == ArtifactText("none", ABSENT, <<>>)

NoArtifacts ==
    [artifacts |-> <<>>, ids |-> 0,
     last |-> [args |-> NoArtifactArgs, userId |-> ABSENT,
               text |-> NoArtifactText]]

\* artifacts.get(id)
Position(artifacts, id) ==
    IF \E i \in 1..Len(artifacts) : artifacts[i].id = id
    THEN CHOOSE i \in 1..Len(artifacts) : artifacts[i].id = id
    ELSE 0

\* `userId && artifact.userId && artifact.userId !== userId`
Foreign(artifact, userId) ==
    userId # ABSENT /\ artifact.userId # ABSENT /\ artifact.userId # userId

\* Array.prototype.sort by updatedAt, latest first; the sort is stable, so
\* artifacts of one instant keep the order of the Map.
SortByUpdatedAt(q) ==
    LET Before(i, j) ==
            \/ q[i].updatedAt > q[j].updatedAt
            \/ q[i].updatedAt = q[j].updatedAt /\ i < j
        Rank(i) == 1 + Cardinality({j \in 1..Len(q) : Before(j, i)})
    IN  [k \in 1..Len(q) |-> q[CHOOSE i \in 1..Len(q) : Rank(i) = k]]

\* `.filter(artifact => !userId || !artifact.userId ||
\*                      artifact.userId === userId)`
userArtifacts(artifacts, userId) ==
    SortByUpdatedAt(SelectSeq(artifacts, LAMBDA a : ~Foreign(a, userId)))

\* handler(args, userId) of artifact.ts with the Map as `artifacts`, at
\* instant `stamp`, artifactId being the id a create would generate: the
\* Map it leaves and the text it returns.  The text of create and update
\* is built after artifacts.set, with content.slice; for a content that is
\* not a string that throws, and the catch returns the message.
\* language and createdAt are written once and only printed: an artifact
\* is kept without them.
ArtifactHandler(args, userId, artifacts, stamp, artifactId) ==
    LET at == Position(artifacts, args.id)
        Same(text) == [artifacts |-> artifacts, text |-> text]
        Preview(a) ==
            IF a.content = NotAString
            THEN ArtifactError("thrown", userId)
            ELSE ArtifactText(IF args.action = "create" THEN "created"
                              ELSE "updated",
                              userId, <<Shown(a, a.content)>>)
    IN
    CASE args.action = "create" ->
           IF args.title = ABSENT \/ args.type = ABSENT
              \/ args.content = ABSENT
           THEN Same(ArtifactError("missing fields", userId))
           ELSE LET artifact ==
                        [id |-> artifactId, title |-> args.title,
                         type |-> args.type, content |-> args.content,
                         updatedAt |-> stamp, userId |-> userId]
                IN  [artifacts |-> Append(artifacts, artifact),
                     text |-> Preview(artifact)]
      [] args.action \in {"update", "get", "delete"} /\ args.id = 0 ->
           Same(ArtifactError("id required", userId))
      [] args.action \in {"update", "get", "delete"} /\ args.id # 0
         /\ at = 0 ->
           Same(ArtifactError("not found", userId))
      [] args.action = "update" /\ at # 0 ->
           IF Foreign(artifacts[at], userId)
           THEN Same(ArtifactError("no permission", userId))
           ELSE LET artifact ==
                        [artifacts[at] EXCEPT
                            !.title = IF args.title # ABSENT
                                      THEN args.title ELSE @,
                            !.type = IF args.type # ABSENT
                                     THEN args.type ELSE @,
                            !.content = IF args.content # ABSENT
                                        THEN args.content ELSE @,
                            !.updatedAt = stamp]
                IN  [artifacts |-> [artifacts EXCEPT ![at] = artifact],
                     text |-> Preview(artifact)]
      [] args.action = "get" /\ at # 0 ->
           Same(ArtifactText("details", userId,
                             <<Shown(artifacts[at], artifacts[at].content)>>))
      [] args.action = "delete" /\ at # 0 ->
           IF Foreign(artifacts[at], userId)
           THEN Same(ArtifactError("no permission", userId))
           ELSE [artifacts |->
                     SelectSeq(artifacts, LAMBDA a : a.id # args.id),
                 text |-> ArtifactText("deleted", userId,
                                       <<Shown(artifacts[at], ABSENT)>>)]
      [] args.action = "list" ->
           LET mine == userArtifacts(artifacts, userId) IN
           IF Len(mine) = 0
           THEN Same(ArtifactText("none found", userId, <<>>))
           ELSE Same(ArtifactText("list", userId,
                       [k \in 1..Len(mine) |-> Shown(mine[k], ABSENT)]))
      [] OTHER -> Same(ArtifactError("unknown action", userId))

----------------------------------------------------------------------------
(* State machine *)

(* A request is handled in one step, so the registry and the store it sees *)
(* are those of the state in which `last` is set; Respond ends the request *)
(* and the server is idle again.  The registry, the store and the SSE      *)
(* transports change between requests.                                     *)

Last(entry, userId, m, h) ==
    [entry |-> entry, userId |-> userId, msg |-> m, body |-> "object",
     resp |-> h.resp, trace |-> h.trace, thrown |-> h.thrown, via |-> h.via,
     toolArgs |-> h.toolArgs]

IdleLast == Last("none", ABSENT, NoMessage, Handled(NoResponse, <<>>))

Idle == last.entry = "none"

\* Nothing is registered yet.
NoOrigin == [tools |-> <<>>, toolHandlers |-> {}]

Init ==
    /\ tools = <<>>
    /\ toolHandlers = {}
    /\ loadIdx = 0
    /\ files = ToolsDir
    /\ origin = NoOrigin
    /\ userTool = {}
    /\ transport = 0
    /\ legacyTransport = 0
    /\ last = IdleLast
    /\ accessKey = {}
    /\ now = 0
    /\ issued = 0
    /\ calls = [s \in Slots |-> NoCall]
    /\ artifactTool = NoArtifacts

\* Mutant of ValidModule: the test of the handler is gone.
ValidModule_NameOnly(mod) == mod.script /\ mod.name # ABSENT

\* The two tests of the loop body that let a file through: the extension,
\* and `tool?.name` with `typeof handler === "function"`.
ValidModule(mod) == mod.script /\ mod.name # ABSENT /\ mod.handler

\* One iteration of the loop of loadAllTools: tools.push(tool) and
\* toolHandlers[tool.name] = handler, or `continue`.
LoadModule ==
    /\ Idle
    /\ loadIdx < Len(files)
    /\ loadIdx' = loadIdx + 1
    /\ LET mod == files[loadIdx + 1] IN
       IF ~ValidModule(mod)
       THEN UNCHANGED <<tools, toolHandlers, origin>>
       ELSE /\ tools' = Append(tools, mod.name)
            /\ toolHandlers' = toolHandlers \cup {mod.name}
            /\ origin' =
                   [tools |-> Append(origin.tools, loadIdx + 1),
                    toolHandlers |->
                        {r \in origin.toolHandlers : r.name # mod.name}
                        \cup {[name |-> mod.name, file |-> loadIdx + 1]}]
    /\ UNCHANGED <<files, userTool, transport, legacyTransport, last,
                   artifactTool>>
    /\ UNCHANGED tokenVars

\* A user enables a tool (the flow that writes UserTool is outside the
\* server); @@unique([userId, toolId]) admits one row per pair.
Subscribe(u, t, a) ==
    /\ Idle
    /\ Cardinality(userTool) < MaxRows
    /\ ~\E r \in userTool : r.userId = u /\ r.toolId = t
    /\ userTool' = userTool \cup {[userId |-> u, toolId |-> t, authorized |-> a]}
    /\ UNCHANGED <<artifactTool,
                   tools, toolHandlers, loadIdx, files, origin, transport, legacyTransport,
                   last>>
    /\ UNCHANGED tokenVars

Unsubscribe(r) ==
    /\ Idle
    /\ r \in userTool
    /\ userTool' = userTool \ {r}
    /\ UNCHANGED <<artifactTool,
                   tools, toolHandlers, loadIdx, files, origin, transport, legacyTransport,
                   last>>
    /\ UNCHANGED tokenVars

\* router.get("/sse"): the global transport is replaced.
SseConnect ==
    /\ Idle
    /\ transport < MaxConn
    /\ transport' = transport + 1
    /\ UNCHANGED <<artifactTool,
                   tools, toolHandlers, loadIdx, files, origin, userTool, legacyTransport,
                   last>>
    /\ UNCHANGED tokenVars

LegacySseConnect ==
    /\ Idle
    /\ legacyTransport = 0
    /\ legacyTransport' = 1
    /\ UNCHANGED <<artifactTool,
                   tools, toolHandlers, loadIdx, files, origin, userTool, transport, last>>
    /\ UNCHANGED tokenVars

Answer(l) ==
    /\ Idle
    /\ last' = l
    /\ UNCHANGED <<artifactTool,
                   tools, toolHandlers, loadIdx, files, origin, userTool, transport,
                   legacyTransport>>
    /\ UNCHANGED tokenVars

PostMcpRoutes(userId, m, env) ==
    Answer(Last("routes.ts", userId, m,
                RoutesPostMcp(userId, m, env.db, env.run)))

PostMcpArtifact(userId, m, env) ==
    Answer(Last("artifact.ts", userId, m,
                ArtifactPostMcp(userId, m, env.db, env.run)))

PostMcpPart001(userId, m, env) ==
    Answer(Last("part_001", userId, m,
                Part001PostMcp(userId, m, env.db, env.run)))

PostMcpLegacy(m) ==
    Answer(Last("legacy/mcp", ABSENT, m, LegacyPostMcp(m)))

\* Mutant of PostMessages: the transport of the first connection is kept
\* and used (`if (!transport) transport = new SSEServerTransport(...)`).
PostMessages_ToFirstTransport(m) ==
    Answer(Last("sse", ABSENT, m,
                IF transport = 0 THEN Handled(NoSseConnection, <<>>)
                ELSE [McpServerMessage(m) EXCEPT !.via = 1]))

\* router.post("/messages") of routes.ts: transport.handlePostMessage on
\* the transport the global holds.
PostMessages(m) ==
    Answer(Last("sse", ABSENT, m,
                IF transport = 0 THEN Handled(NoSseConnection, <<>>)
                ELSE [McpServerMessage(m) EXCEPT !.via = transport]))

\* app.post("/messages") of server_not_refactore.ts
PostMessagesLegacy(m) ==
    Answer(Last("legacy/sse", ABSENT, m,
                IF legacyTransport = 0 THEN Handled(NoSseConnection, <<>>)
                ELSE [LegacyServerMessage(m) EXCEPT !.via = legacyTransport]))

\* The response has been sent; the request is over.
Respond ==
    /\ ~Idle
    /\ last' = IdleLast
    /\ UNCHANGED <<artifactTool,
                   tools, toolHandlers, loadIdx, files, origin, userTool, transport,
                   legacyTransport>>
    /\ UNCHANGED tokenVars

Inputs == {<<userId, m, env>> \in UserIds \X Messages \X Envs :
              env \in EnvsFor(m)}

Next ==
    \/ LoadModule
    \/ \E u \in Users, t \in ToolIds, a \in BOOLEAN : Subscribe(u, t, a)
    \/ \E r \in userTool : Unsubscribe(r)
    \/ Idle /\ \E i \in Inputs : PostMcpRoutes(i[1], i[2], i[3])
    \/ Idle /\ \E i \in Inputs : PostMcpArtifact(i[1], i[2], i[3])
    \/ Idle /\ \E i \in Inputs : PostMcpPart001(i[1], i[2], i[3])
    \/ Respond

Spec == Init /\ [][Next]_vars

(* The SSE channel and the server that predates the refactoring: neither  *)
(* reads the subscription store.                                           *)
NextChannels ==
    \/ LoadModule
    \/ SseConnect
    \/ LegacySseConnect
    \/ \E m \in AllMessages : PostMessages(m)
    \/ \E m \in AllMessages : PostMessagesLegacy(m)
    \/ \E m \in AllMessages : PostMcpLegacy(m)
    \/ Respond

SpecChannels == Init /\ [][NextChannels]_vars

----------------------------------------------------------------------------
(* Provider-backed handlers: the steps *)

routerVars ==
    <<tools, toolHandlers, loadIdx, files, origin, userTool, transport,
      legacyTransport, last, artifactTool>>

Quiet == \A s \in Slots : calls[s].pc = "idle"

\* Mutant of Key: the where clause names the user only.
Key_OfUser(c) ==
    IF \E r \in accessKey : r.userId = c.userId
    THEN CHOOSE r \in accessKey : r.userId = c.userId
    ELSE NoRow

Key(c) == FindUnique(c.userId, ToolOf(c.h))

\* The OAuth callback (outside the server) stores the tokens of a user for
\* a tool; @@unique([userId, toolId]) admits one row per pair.
StoreCredential(u, t, at, rt, expiryDate) ==
    /\ Quiet
    /\ Cardinality(accessKey) < MaxCreds
    /\ FindUnique(u, t) = NoRow
    /\ accessKey' = accessKey \cup
           {[userId |-> u, toolId |-> t, accessToken |-> at,
             refreshToken |-> rt, expiryDate |-> expiryDate]}
    /\ UNCHANGED <<now, issued, calls>>
    /\ UNCHANGED routerVars

Tick ==
    /\ Quiet
    /\ now < MaxNow
    /\ now' = now + 1
    /\ UNCHANGED <<accessKey, issued, calls>>
    /\ UNCHANGED routerVars

\* handleToolCall calls handler(toolArgs, userId).
Invoke(s, h, userId, complete, configured) ==
    /\ calls[s].pc = "idle"
    /\ calls' = [calls EXCEPT ![s] = Enter(h, userId, complete, configured)]
    /\ UNCHANGED <<accessKey, now, issued>>
    /\ UNCHANGED routerVars

\* await prisma.accessKey.findUnique(...)
StepFindUnique(s, dbOk) ==
    LET c == calls[s] IN
    /\ c.pc = "findUnique"
    /\ calls' = [calls EXCEPT ![s] =
           IF dbOk
           THEN AfterFindUnique(
                    Log(c, TEv("accessKey.findUnique", NoToken, NoError,
                               NoToken, NoToken, 0, Key(c))),
                    Key(c))
           ELSE Finish(Log(c, TEv("accessKey.findUnique", NoToken,
                                  UpdateRejected, NoToken, NoToken, 0, Key(c))),
                       Throw(DbError, <<>>))]
    /\ UNCHANGED <<accessKey, now, issued>>
    /\ UNCHANGED routerVars

\* await oauth2Client.refreshAccessToken(): the client holds the refresh
\* token the handler read at its start.
StepRefresh(s, ans) ==
    LET c == calls[s]
        granted == ans.ok /\ ans.access
        newAccessToken == IF granted THEN StoredToken + issued + 1 ELSE NoToken
        newRefreshToken ==
            IF ans.ok /\ ans.rotate THEN StoredToken + issued + 1 ELSE NoToken
        err == IF ~ans.ok THEN RefreshRejected
               ELSE IF ~ans.access THEN NoAccessTokenReceived ELSE NoError
    IN
    /\ c.pc = "refresh"
    /\ ans.ok => issued < MaxRefresh
    /\ issued' = IF ans.ok THEN issued + 1 ELSE issued
    /\ calls' = [calls EXCEPT ![s] =
           AfterRefresh(
               Log(c, TEv("refresh", c.refreshToken, err, newAccessToken,
                          newRefreshToken, ans.lifetime, Key(c))),
               ans, newAccessToken, newRefreshToken)]
    /\ UNCHANGED <<accessKey, now>>
    /\ UNCHANGED routerVars

\* await prisma.accessKey.update(...): rejects when the store cannot be
\* reached or holds no row for the pair.
StepUpdate(s, dbOk) ==
    LET c == calls[s]
        row == Key(c)
        written == dbOk /\ row # NoRow
        after == IF written THEN UpdateData(c, row) ELSE row
        d == Log(c, TEv("accessKey.update", c.newAccessToken,
                        IF written THEN NoError ELSE UpdateRejected,
                        c.newAccessToken, c.newRefreshToken, 0, after))
    IN
    /\ c.pc = "update"
    /\ accessKey' = IF written THEN (accessKey \ {row}) \cup {after}
                    ELSE accessKey
    /\ calls' = [calls EXCEPT ![s] =
           IF written THEN AfterUpdate(d)
           ELSE RefreshCatch(d, "refreshFailed", TRUE, UpdateRejected)]
    /\ UNCHANGED <<now, issued>>
    /\ UNCHANGED routerVars

\* await of the provider call (gmail.users.messages.send,
\* calendar.events.insert, analyticsData.properties.runReport) with the
\* access token the client was given last.
StepSend(s, error) ==
    LET c == calls[s]
        token == IF c.phase = "retry" THEN c.newAccessToken ELSE c.accessToken
    IN
    /\ c.pc = "send"
    /\ c.phase = "retry" => error \in {NoError} \cup RetryErrors
    /\ calls' = [calls EXCEPT ![s] =
           AfterSend(Log(c, TEv("provider", token, error, NoToken, NoToken,
                                0, Key(c))),
                     error)]
    /\ UNCHANGED <<accessKey, now, issued>>
    /\ UNCHANGED routerVars

\* The handler has returned or thrown; handleToolCall hands it on.
HandlerReturns(s) ==
    /\ calls[s].pc = "done"
    /\ calls' = [calls EXCEPT ![s] = NoCall]
    /\ UNCHANGED <<accessKey, now, issued>>
    /\ UNCHANGED routerVars

Configs(h) == IF h \in {"routes.ts", "part_002"} THEN BOOLEAN ELSE {TRUE}

\* A row without access token is Stale whatever its expiry: one expiry
\* stands for them all.
StoredExpiryDates(at) == IF at = NoToken THEN {0} ELSE ExpiryDates

(* The handlers, one invocation at a time. *)
NextTokens ==
    \/ \E u \in Grantees, t \in CredTools, at \in {NoToken, StoredToken},
          rt \in {NoToken, StoredToken} :
           \E e \in StoredExpiryDates(at) : StoreCredential(u, t, at, rt, e)
    \/ Tick
    \/ \E h \in Handlers, u \in UserIds, complete \in BOOLEAN :
           \E configured \in Configs(h) :
               Quiet /\ Invoke(1, h, u, complete, configured)
    \/ \E dbOk \in BOOLEAN : StepFindUnique(1, dbOk)
    \/ \E ans \in RefreshAnswers : StepRefresh(1, ans)
    \/ \E dbOk \in BOOLEAN : StepUpdate(1, dbOk)
    \/ \E error \in {NoError} \cup ProviderErrors : StepSend(1, error)
    \/ HandlerReturns(1)

SpecTokens == Init /\ [][NextTokens]_vars

(* tools/call Requests whose arguments carry a userId member of their     *)
(* own, posted to the three routers.                                       *)
ForgedMessages ==
    {[jsonrpc |-> "2.0", method |-> "tools/call", id |-> "7",
      params |-> [present |-> TRUE, name |-> n, args |-> "OBJ",
                  argsUserId |-> u]] :
        n \in CallNames, u \in Users}

ForgedInputs == {<<userId, m, env>> \in UserIds \X ForgedMessages \X Envs :
                    env \in EnvsFor(m)}

NextIdentity ==
    \/ LoadModule
    \/ \E u \in Users, t \in ToolIds, a \in BOOLEAN : Subscribe(u, t, a)
    \/ \E r \in userTool : Unsubscribe(r)
    \/ \E i \in ForgedInputs : PostMcpRoutes(i[1], i[2], i[3])
    \/ \E i \in ForgedInputs : PostMcpArtifact(i[1], i[2], i[3])
    \/ \E i \in ForgedInputs : PostMcpPart001(i[1], i[2], i[3])
    \/ Respond

SpecIdentity == Init /\ [][NextIdentity]_vars

(* The manage_artifact handler, one call at a time.                        *)

\* A call of the handler is answered in one step: the handler has no
\* await.  Date.now() does not go back: the instant is not before any
\* updatedAt in the Map.
ManageArtifact(args, userId, stamp) ==
    LET t == artifactTool
        h == ArtifactHandler(args, userId, t.artifacts, stamp, t.ids + 1)
        set == Len(h.artifacts) > Len(t.artifacts)
    IN
    /\ t.last.text.kind = "none"
    /\ set => t.ids < MaxArtifacts
    /\ \A i \in 1..Len(t.artifacts) : t.artifacts[i].updatedAt <= stamp
    /\ artifactTool' =
           [artifacts |-> h.artifacts,
            ids |-> IF set THEN t.ids + 1 ELSE t.ids,
            last |-> [args |-> args, userId |-> userId, text |-> h.text]]
    /\ UNCHANGED <<tools, toolHandlers, loadIdx, files, origin, userTool,
                   transport, legacyTransport, last>>
    /\ UNCHANGED tokenVars

\* The text has been returned to handleToolCall.
ArtifactReturns ==
    /\ artifactTool.last.text.kind # "none"
    /\ artifactTool' = [artifactTool EXCEPT !.last = NoArtifacts.last]
    /\ UNCHANGED <<tools, toolHandlers, loadIdx, files, origin, userTool,
                   transport, legacyTransport, last>>
    /\ UNCHANGED tokenVars

NextArtifacts ==
    \/ \E args \in ArtifactArgs, userId \in UserIds, stamp \in 0..MaxStamp :
           ManageArtifact(args, userId, stamp)
    \/ ArtifactReturns

SpecArtifacts == Init /\ [][NextArtifacts]_vars

(* Well-formed tools/list and tools/call Requests, posted to the three    *)
(* routers.                                                                *)
GateMessages ==
    {m \in Messages :
        /\ m.jsonrpc = "2.0"
        /\ m.id = "7"
        /\ m.method \in {"tools/list", "tools/call"}
        /\ m.method = "tools/call" => m.params.present}

GateInputs == {<<userId, m, env>> \in UserIds \X GateMessages \X Envs :
                  env \in EnvsFor(m)}

NextGate ==
    \/ LoadModule
    \/ \E u \in Users, t \in ToolIds, a \in BOOLEAN : Subscribe(u, t, a)
    \/ \E r \in userTool : Unsubscribe(r)
    \/ \E i \in GateInputs : PostMcpRoutes(i[1], i[2], i[3])
    \/ \E i \in GateInputs : PostMcpArtifact(i[1], i[2], i[3])
    \/ \E i \in GateInputs : PostMcpPart001(i[1], i[2], i[3])
    \/ Respond

SpecGate == Init /\ [][NextGate]_vars

(* Discovery alone, over every directory of up to MaxFiles files.          *)
MaxFiles == 3

ModuleNames == {ABSENT, "get_weather", "GMAIL_SENDER"}

Modules ==
    {[script |-> x, name |-> n, handler |-> h] :
        x \in BOOLEAN, n \in ModuleNames, h \in BOOLEAN}

Directories == UNION {[1..k -> Modules] : k \in 0..MaxFiles}

InitRegistry ==
    /\ tools = <<>>
    /\ toolHandlers = {}
    /\ loadIdx = 0
    /\ files \in Directories
    /\ origin = NoOrigin
    /\ userTool = {}
    /\ transport = 0
    /\ legacyTransport = 0
    /\ last = IdleLast
    /\ accessKey = {}
    /\ now = 0
    /\ issued = 0
    /\ calls = [s \in Slots |-> NoCall]
    /\ artifactTool = NoArtifacts

NextRegistry == LoadModule

SpecRegistry == InitRegistry /\ [][NextRegistry]_vars

(* Bodies that are not JSON objects, posted to the three routers.          *)
Routers == {"routes.ts", "artifact.ts", "part_001"}

PostMcpRaw(router, userId, body, version, db) ==
    Answer([Last(router, userId, NoMessage,
                 RawPostMcp(router, userId, body, version, db))
              EXCEPT !.body = body])

NextBodies ==
    \/ LoadModule
    \/ \E u \in Users, t \in ToolIds, a \in BOOLEAN : Subscribe(u, t, a)
    \/ \E r \in userTool : Unsubscribe(r)
    \/ \E router \in Routers, u \in UserIds, body \in Bodies,
          version \in ExpressVersions, db \in {"ok", "fail"} :
           PostMcpRaw(router, u, body, version, db)
    \/ Respond

SpecBodies == Init /\ [][NextBodies]_vars

(* Two invocations at a time: Express serves every request on its own     *)
(* async call, and nothing in the handlers orders the awaits of one call   *)
(* with those of another.                                                  *)
RaceHandlers == {"routes.ts"}
RaceTools == {ToolOf(h) : h \in RaceHandlers}
RaceErrors == {NoError, Err(401, "Invalid Credentials")}

NextRace ==
    \/ \E t \in RaceTools, at \in {NoToken, StoredToken},
          rt \in {NoToken, StoredToken} :
           \E e \in StoredExpiryDates(at) :
               StoreCredential("u1", t, at, rt, e)
    \/ \E s \in Slots, h \in RaceHandlers : Invoke(s, h, "u1", TRUE, TRUE)
    \/ \E s \in Slots : StepFindUnique(s, TRUE)
    \/ \E s \in Slots, ans \in RefreshAnswers : StepRefresh(s, ans)
    \/ \E s \in Slots, dbOk \in BOOLEAN : StepUpdate(s, dbOk)
    \/ \E s \in Slots, error \in RaceErrors : StepSend(s, error)
    \/ \E s \in Slots : HandlerReturns(s)

SpecRace == Init /\ [][NextRace]_vars

----------------------------------------------------------------------------
(* Vocabulary of the properties *)

Range(q) == {q[i] : i \in 1..Len(q)}

\* The request in `last` was posted to one of the three revisions of the
\* POST /mcp router that call getToolsForUser and handleToolCall.
OnRouter == last.entry \in {"routes.ts", "artifact.ts", "part_001"}

ValidMarker == last.msg.jsonrpc = "2.0"
IsRequest == Has(last.msg.method) /\ Has(last.msg.id)
IsNotification == Has(last.msg.method) /\ ~Has(last.msg.id)

Subscribed(u, t) == \E r \in userTool : r.userId = u /\ r.toolId = t

TraceHas(evs) == \E i \in 1..Len(last.trace) : last.trace[i].ev \in evs

HandlerEffects ==
    {"handler", "accessKey.findUnique", "provider", "refresh",
     "accessKey.update"}

\* The methods the router that took the request dispatches.
Routed ==
    IF last.entry = "part_001"
    THEN {"initialize", "tools/list", "tools/call", "resources/list",
          "prompts/list"}
    ELSE {"initialize", "tools/list", "tools/call"}

----------------------------------------------------------------------------
(* C1 *)

ListedFor(u) ==
    /\ OnRouter
    /\ last.userId = u
    /\ last.msg.method = "tools/list"
    /\ last.resp.kind = "result"

\* C1: for every user U, the result of a tools/list made with userId = U is
\* exactly the subsequence of the registry's tool list made of the tools for
\* which a UserTool row (U, T) exists, whatever the row's authorized flag:
\* a registered tool T is in the result iff the row exists.
C1_ToolsListMatchesSubscriptions ==
    \A u \in Users :
        ListedFor(u) =>
            /\ last.resp.result.tools =
                   SelectSeq(tools, LAMBDA t : Subscribed(u, t))
            /\ \A t \in Range(tools) :
                   t \in Range(last.resp.result.tools) <=> Subscribed(u, t)

\* A user whose only row is not authorized lists that tool and not the
\* other registered one.
C1_Witness ==
    \E u \in Users :
        /\ ListedFor(u)
        /\ Len(tools) = 2
        /\ Len(last.resp.result.tools) = 1
        /\ \E r \in userTool : r.userId = u /\ ~r.authorized

----------------------------------------------------------------------------
(* C2 *)

CallBy(u, t) ==
    /\ OnRouter
    /\ last.entry = "routes.ts" => ValidMarker
    /\ IsRequest
    /\ last.msg.method = "tools/call"
    /\ last.msg.params.present
    /\ last.msg.params.name = t
    /\ last.userId = u

ToolNames == CallNames \ {ABSENT}

\* C2: a tools/call of tool name T (registered or not) by user U without a
\* UserTool row (U, T) runs no handler and causes no credential read,
\* provider call, refresh call or credential write; the subscription lookup
\* is its only effect, and once the lookup has settled the call is answered
\* with the access-denied tool result, isError true.
C2_UnsubscribedCallIsDenied ==
    \A u \in Users, t \in ToolNames :
        (CallBy(u, t) /\ ~Subscribed(u, t)) =>
            /\ ~TraceHas(HandlerEffects)
            /\ \/ last.trace = <<Ev("userTool.findMany rejected", u, t, FALSE)>>
               \/ /\ last.trace = <<Ev("userTool.findMany", u, t, FALSE)>>
                  /\ last.resp.kind = "result"
                  /\ last.resp.result = Denied(t)
                  /\ last.resp.result.isError

\* A registered tool that another user is subscribed to is denied to a user
\* who is not.
C2_Witness ==
    \E u \in Users, t \in ToolNames :
        /\ CallBy(u, t)
        /\ ~Subscribed(u, t)
        /\ t \in toolHandlers
        /\ \E r \in userTool : r.toolId = t /\ r.userId # u
        /\ last.resp.result = Denied(t)

----------------------------------------------------------------------------
(* C3 *)

\* C3: on every entry point, each handler invocation for (userId, tool) is
\* preceded in the same request by a subscription lookup that found a row
\* for (userId, tool).
C3_HandlerPrecededByLookup ==
    \A i \in 1..Len(last.trace) :
        last.trace[i].ev = "handler" =>
            \E j \in 1..(i - 1) :
                /\ last.trace[j].ev = "userTool.findMany"
                /\ last.trace[j].found
                /\ last.trace[j].user = last.trace[i].user
                /\ last.trace[j].tool = last.trace[i].tool

----------------------------------------------------------------------------
(* C4 *)

\* The gate looked the tool up for the user and found no row.
DeniedByGate ==
    /\ OnRouter
    /\ \E i \in 1..Len(last.trace) :
           /\ last.trace[i].ev = "userTool.findMany"
           /\ last.trace[i].tool # "*"
           /\ ~last.trace[i].found

\* C4: a tools/call denied by the gate is answered as a successful JSON-RPC
\* response: status 200, a result member holding the tool result with
\* content and isError true, no error member, and the id of the request.
C4_DenialIsSuccessfulResponse ==
    DeniedByGate =>
        /\ last.resp.kind = "result"
        /\ last.resp.status = 200
        /\ last.resp.code = 0
        /\ last.resp.id = last.msg.id
        /\ last.resp.result.kind = "denied"
        /\ last.resp.result.isError
        /\ last.resp.result.text # <<>>

C4_Witness ==
    /\ DeniedByGate
    /\ last.msg.id = "7"
    /\ last.resp.id = "7"
    /\ last.resp.result.isError

----------------------------------------------------------------------------
(* C5 *)

\* C5: every envelope posted to /mcp whose jsonrpc member is missing or
\* different from "2.0" is answered with error -32600, and nothing is
\* dispatched, read or run for it.
C5_InvalidMarkerRejected ==
    (OnRouter /\ ~ValidMarker) =>
        /\ last.resp.kind = "error"
        /\ last.resp.code = -32600
        /\ last.trace = <<>>

----------------------------------------------------------------------------
(* C6 *)

\* C6: an envelope with a valid jsonrpc marker and no method member is
\* rejected with error -32600 and nothing is dispatched.
C6_MissingMethodRejected ==
    (OnRouter /\ ValidMarker /\ ~Has(last.msg.method)) =>
        /\ last.resp.kind = "error"
        /\ last.resp.code = -32600
        /\ last.trace = <<>>

----------------------------------------------------------------------------
(* C7 *)

\* C7: every well-formed Request whose method the dispatcher does not route
\* is answered with a JSON-RPC error, code -32603, whose id is the
\* request's id.
C7_UnknownMethodIsError ==
    (OnRouter /\ ValidMarker /\ IsRequest /\ last.msg.method \notin Routed) =>
        /\ last.resp.kind = "error"
        /\ last.resp.code = -32603
        /\ last.resp.id = last.msg.id

----------------------------------------------------------------------------
(* C8 *)

\* C8: every Notification with a valid marker is acknowledged with an empty
\* 204 response without result or error, and causes no lookup, handler,
\* refresh or store write.
C8_NotificationIsEmpty204 ==
    (OnRouter /\ ValidMarker /\ IsNotification) =>
        /\ last.resp = Empty204
        /\ last.trace = <<>>

----------------------------------------------------------------------------
(* C9 *)

Raised == OnRouter /\ last.thrown # <<>>

SentMessage(e) ==
    IF last.entry = "part_001" /\ last.trace # <<>>
    THEN IF last.msg.method = "tools/list"
         THEN <<"Failed to get tools for user: ">> \o e
         ELSE <<"Tool execution failed: ">> \o e
    ELSE e

----------------------------------------------------------------------------
(* C10 *)

\* C10: a tools/call Request without params, or without params.name, is
\* rejected with a JSON-RPC error and reaches neither the gate nor a handler.
C10_MissingNameRejected ==
    (/\ OnRouter
     /\ ValidMarker
     /\ IsRequest
     /\ last.msg.method = "tools/call"
     /\ (~last.msg.params.present \/ last.msg.params.name = ABSENT)) =>
        /\ last.resp.kind = "error"
        /\ last.trace = <<>>

----------------------------------------------------------------------------
(* C11 *)

\* The gate looked T up for U and found the row.
ApprovedCall(u, t) ==
    /\ CallBy(u, t)
    /\ last.trace # <<>>
    /\ last.trace[1] = Ev("userTool.findMany", u, t, TRUE)

HandlerRuns(t) ==
    Cardinality({i \in 1..Len(last.trace) :
                    last.trace[i].ev = "handler" /\ last.trace[i].tool = t})

\* C11: for a tools/call of T by U that the gate approves (the row (U, T)
\* exists): if no handler is registered under T the result is the isError
\* tool result "not implemented" and nothing runs; otherwise the handler of
\* T is invoked exactly once for U, and what it returns is the JSON-RPC
\* result, unchanged.
C11_ApprovedCallRunsHandlerOnce ==
    \A u \in Users, t \in ToolIds :
        ApprovedCall(u, t) =>
            /\ Subscribed(u, t)
            /\ IF t \notin toolHandlers
               THEN /\ HandlerRuns(t) = 0
                    /\ ~TraceHas(HandlerEffects)
                    /\ last.resp.kind = "result"
                    /\ last.resp.result.kind = "notimpl"
                    /\ last.resp.result.isError
               ELSE /\ HandlerRuns(t) = 1
                    /\ last.trace[2] = Ev("handler", u, t, TRUE)
                    /\ \E run \in GmailRuns :
                           LET h == InvokeHandler(t, u, run) IN
                           /\ last.trace = <<last.trace[1]>> \o h.trace
                           /\ ~h.threw =>
                                  /\ last.resp.kind = "result"
                                  /\ last.resp.id = last.msg.id
                                  /\ last.resp.result = h.result

\* The GMAIL_SENDER handler returns an isError result of its own, which is
\* sent as the result of the call.
C11_Witness ==
    \E u \in Users :
        /\ ApprovedCall(u, "GMAIL_SENDER")
        /\ "GMAIL_SENDER" \in toolHandlers
        /\ HandlerRuns("GMAIL_SENDER") = 1
        /\ last.resp.kind = "result"
        /\ last.resp.result = GmailHandler("refreshFailed", u).result
        /\ last.resp.result.isError

----------------------------------------------------------------------------
(* Vocabulary of the token-lifecycle properties *)

Steps(c, kind) == {i \in 1..Len(c.trace) : c.trace[i].ev = kind}

Refreshes(c) == Steps(c, "refresh")
Updates(c) == Steps(c, "accessKey.update")
Providers(c) == Steps(c, "provider")

\* The invocation has read its AccessKey row.
HasRead(c) ==
    /\ c.trace # <<>>
    /\ c.trace[1].ev = "accessKey.findUnique"
    /\ c.trace[1].error = NoError
    /\ c.trace[1].row # NoRow

ReadRow(c) == c.trace[1].row

\* The states of a credential at instant t.
Valid(row, t) ==
    row.expiryDate > t + GuardWindow /\ row.accessToken # NoToken
Stale(row, t) ==
    row.expiryDate <= t + GuardWindow \/ row.accessToken = NoToken

First(S) == CHOOSE i \in S : \A j \in S : i <= j

Failed(c, i) == c.trace[i].error # NoError

\* The classification of provider errors as the claims state it.
AuthenticationError(error) ==
    \/ error.code \in {401, 403}
    \/ \E w \in {"invalid_grant", "invalid_client", "unauthorized",
                 "forbidden"} : Includes(error.message, w)

\* A refresh whose tokens reached the store: the update at step i settled.
Refreshed(c, i) ==
    /\ i \in Updates(c)
    /\ ~Failed(c, i)
    /\ i - 1 \in Refreshes(c)

InText(c, word) == \E k \in 1..Len(c.out.result.text) :
                       c.out.result.text[k] = word

ReturnsError(c) ==
    c.pc = "done" /\ ~c.out.threw /\ c.out.result.isError

----------------------------------------------------------------------------
(* C12 *)

\* C12: when the credential an invocation reads is Valid (expiry more than
\* 5 minutes ahead, access token present), the handler makes its provider
\* call, makes it with the stored access token, and no refresh call and no
\* store write comes before it.
C12_ValidCredentialIsUsedAsStored ==
    \A s \in Slots :
        LET c == calls[s] IN
        (HasRead(c) /\ Valid(ReadRow(c), c.trace[1].at) /\ c.configured) =>
            /\ \A i \in Refreshes(c) \cup Updates(c) :
                   \E j \in Providers(c) : j < i
            /\ Providers(c) # {} =>
                   c.trace[First(Providers(c))].token = ReadRow(c).accessToken
            /\ c.pc = "done" => Providers(c) # {}

----------------------------------------------------------------------------
(* C13 *)

\* C13: when the credential an invocation reads is Stale and has a refresh
\* token, exactly one refresh call precedes the first provider call, and
\* that call is made with the access token the refresh returned.
C13_StaleCredentialRefreshedFirst ==
    \A s \in Slots :
        LET c == calls[s] IN
        (/\ HasRead(c)
         /\ Stale(ReadRow(c), c.trace[1].at)
         /\ ReadRow(c).refreshToken # NoToken
         /\ Providers(c) # {}) =>
            LET p == First(Providers(c))
                before == {i \in Refreshes(c) : i < p}
            IN  /\ Cardinality(before) = 1
                /\ \A i \in before : c.trace[p].token = c.trace[i].access


----------------------------------------------------------------------------
(* C14 *)

\* The first provider call of the invocation failed with an authentication
\* error and a second provider call was made.
RetriedAfterAuthError(c) ==
    /\ Cardinality(Providers(c)) >= 2
    /\ Failed(c, First(Providers(c)))
    /\ AuthenticationError(c.trace[First(Providers(c))].error)

Retry(c) == First(Providers(c) \ {First(Providers(c))})

RefreshesAfterFirstCall(c) ==
    {i \in Refreshes(c) : i > First(Providers(c))}

\* C14: when the first provider call fails with an authentication error and
\* the provider call made after the refresh succeeds, the handler has
\* returned a success result, after exactly one refresh call and exactly
\* one retry; with a credential that was Valid when read that refresh is
\* the only one of the invocation.
C14_RetrySuccessIsSuccess ==
    \A s \in Slots :
        LET c == calls[s] IN
        (RetriedAfterAuthError(c) /\ ~Failed(c, Retry(c))) =>
            /\ c.pc = "done"
            /\ ~c.out.threw
            /\ ~c.out.result.isError
            /\ Cardinality(Providers(c)) = 2
            /\ Cardinality(RefreshesAfterFirstCall(c)) = 1
            /\ Valid(ReadRow(c), c.trace[1].at) =>
                   Cardinality(Refreshes(c)) = 1

C14_Witness ==
    \E s \in Slots :
        LET c == calls[s] IN
        /\ c.h = "part_002"
        /\ RetriedAfterAuthError(c)
        /\ ~Failed(c, Retry(c))
        /\ Valid(ReadRow(c), c.trace[1].at)
        /\ c.trace[First(Providers(c))].error.code = 401
        /\ c.out.result.kind = "sentAfterRefresh"

----------------------------------------------------------------------------
(* C15 *)

\* C15: when the provider call fails with an authentication error on the
\* first attempt and on the retry, the handler has returned an isError
\* result after exactly one refresh attempt: there is no third provider
\* call and no second refresh after the first failure.
C15_RetryFailureIsTerminal ==
    \A s \in Slots :
        LET c == calls[s] IN
        (/\ RetriedAfterAuthError(c)
         /\ Failed(c, Retry(c))
         /\ AuthenticationError(c.trace[Retry(c)].error)) =>
            /\ ReturnsError(c)
            /\ Cardinality(Providers(c)) = 2
            /\ Cardinality(RefreshesAfterFirstCall(c)) = 1
            /\ c.trace[Len(c.trace)].ev = "provider"

C15_Witness ==
    \E s \in Slots :
        LET c == calls[s] IN
        /\ c.h = "routes.ts"
        /\ RetriedAfterAuthError(c)
        /\ c.trace[Retry(c)].error.code = 401
        /\ c.out.result.kind = "retryFailed"
        /\ Cardinality(Refreshes(c)) = 1


----------------------------------------------------------------------------
(* C16 *)

\* C16: after every successful refresh the stored credential holds the new
\* access token, and its refresh token is the newly issued one if the
\* provider issued one, otherwise the refresh token that was in the store
\* immediately before that refresh; this for every refresh of an
\* invocation, a reactive one after a proactive one included.
C16_RefreshTokenReplacedOrRetained ==
    \A s \in Slots :
        LET c == calls[s] IN
        \A i \in 1..Len(c.trace) :
            Refreshed(c, i) =>
                LET r == c.trace[i - 1]
                    stored == c.trace[i].row
                IN  /\ stored.accessToken = r.access
                    /\ stored.refreshToken =
                           IF r.refresh # NoToken THEN r.refresh
                           ELSE r.row.refreshToken

----------------------------------------------------------------------------
(* C17 *)

\* The handler turned to the refresh and found no refresh token to use.
NoRefreshTokenToUse(c) ==
    /\ c.pc = "done"
    /\ ~c.out.threw
    /\ c.out.result.kind \in {"noRefreshToken", "expiredNoRefreshToken"}

\* C17: when a refresh fails (the provider rejects the refresh token or
\* returns no access token, or there is no refresh token stored), the
\* stored record is what it was before the attempt, no provider call
\* follows, and the handler has returned an isError result that tells the
\* user to authenticate again.
C17_FailedRefreshChangesNothing ==
    \A s \in Slots :
        LET c == calls[s] IN
        /\ \A i \in Refreshes(c) :
               Failed(c, i) =>
                   /\ i = Len(c.trace)
                   /\ Key(c) = c.trace[i].row
                   /\ ReturnsError(c)
                   /\ InText(c, Reauth)
        /\ NoRefreshTokenToUse(c) =>
               /\ ReadRow(c).refreshToken = NoToken
               /\ Key(c) = ReadRow(c)
               /\ Refreshes(c) \cup Updates(c) = {}
               /\ Cardinality(Providers(c)) <= 1
               /\ ReturnsError(c)
               /\ InText(c, Reauth) \/ InText(c, AuthenticateFirst)

C17_Witness ==
    \E s \in Slots :
        LET c == calls[s] IN
        /\ c.h = "routes.ts"
        /\ Cardinality(Refreshes(c)) = 2
        /\ Cardinality(Updates(c)) = 1
        /\ Failed(c, Len(c.trace))
        /\ c.trace[Len(c.trace)].ev = "refresh"
        /\ Key(c) # ReadRow(c)
        /\ ReturnsError(c)

----------------------------------------------------------------------------
(* C18 *)

\* C18: after every successful refresh the stored expiry is the instant of
\* the refresh plus the lifetime the provider declared, or plus one hour
\* when it declared none, so that the credential just refreshed is Valid.
C18_ExpiryRecomputedOnRefresh ==
    \A s \in Slots :
        LET c == calls[s] IN
        \A i \in 1..Len(c.trace) :
            Refreshed(c, i) =>
                LET r == c.trace[i - 1]
                    stored == c.trace[i].row
                IN  /\ stored.expiryDate =
                           r.at + (IF r.lifetime # 0 THEN r.lifetime
                                   ELSE HourLifetime)
                    /\ Valid(stored, c.trace[i].at)


----------------------------------------------------------------------------
(* C19 *)

\* The failed provider call at step i set the refresh-and-retry going.
TriggersRefresh(c, i) ==
    IF Len(c.trace) > i THEN c.trace[i + 1].ev = "refresh"
    ELSE c.pc = "refresh"

\* C19: in every handler, a failed first provider call of an invocation
\* that holds a refresh token triggers the refresh-and-retry if and only if
\* the error's code is 401 or 403 or its message contains invalid_grant,
\* invalid_client, unauthorized or forbidden.
C19_SameClassificationEverywhere ==
    \A s \in Slots :
        LET c == calls[s] IN
        (/\ HasRead(c)
         /\ ReadRow(c).refreshToken # NoToken
         /\ Providers(c) # {}
         /\ Failed(c, First(Providers(c)))) =>
            (TriggersRefresh(c, First(Providers(c)))
                 <=> AuthenticationError(c.trace[First(Providers(c))].error))

----------------------------------------------------------------------------
(* C20 *)

----------------------------------------------------------------------------
(* C21 *)

\* The invocation ended on a credential it could not use: the store
\* answered and held no row, or a row with neither token, or the handler
\* had no refresh token to refresh with, or its last step is a refresh
\* that failed.
CredentialError(c) ==
    /\ c.pc = "done"
    /\ c.trace # <<>>
    /\ c.trace[1].error = NoError
    /\ \/ c.trace[1].row = NoRow
       \/ /\ c.trace[1].row.accessToken = NoToken
          /\ c.trace[1].row.refreshToken = NoToken
       \/ NoRefreshTokenToUse(c)
       \/ /\ c.trace[Len(c.trace)].ev = "refresh"
          /\ Failed(c, Len(c.trace))

\* C21: what a handler hands back on a credential error reaches the client
\* as a JSON-RPC success response whose result is a tool result with
\* isError, never as a JSON-RPC error object.
C21_CredentialErrorIsToolResult ==
    \A s \in Slots :
        LET c == calls[s] IN
        CredentialError(c) =>
            /\ Settle(c.out, "7").resp.kind = "result"
            /\ Settle(c.out, "7").resp.result.isError


----------------------------------------------------------------------------
(* C22 *)

\* The step from this state to the next is a settled store write of the
\* invocation in slot s.
Wrote(s) ==
    /\ calls[s].pc = "update"
    /\ Len(calls[s].trace') = Len(calls[s].trace) + 1
    /\ ~Failed(calls[s]', Len(calls[s].trace'))

\* C22: refreshes for one (user, tool) are not serialized: two invocations
\* that both read a Stale credential both issue a refresh call, and every
\* settled store write leaves in the store the tokens of the invocation
\* that made it, whatever another invocation wrote since the row was read:
\* the last writer wins.
C22_LastWriterWins ==
    [][\A s \in Slots :
          Wrote(s) =>
              LET c == calls[s]
                  stored == FindUnique(c.userId, ToolOf(c.h))'
              IN  /\ stored.accessToken = c.newAccessToken
                  /\ stored.refreshToken =
                         IF c.newRefreshToken # NoToken
                         THEN c.newRefreshToken ELSE c.refreshToken]_vars

\* Both invocations read the same Stale row, both refresh calls were made
\* while the store still held that row, both writes settled, and the store
\* holds the tokens of one of them only.
C22_Witness ==
    \E s1, s2 \in Slots :
        LET c1 == calls[s1]
            c2 == calls[s2]
        IN  /\ s1 # s2
            /\ c1.h = "routes.ts" /\ c2.h = "routes.ts"
            /\ HasRead(c1) /\ HasRead(c2)
            /\ ReadRow(c1) = ReadRow(c2)
            /\ Stale(ReadRow(c1), c1.trace[1].at)
            /\ \E i \in Updates(c1), j \in Updates(c2) :
                   /\ Refreshed(c1, i) /\ Refreshed(c2, j)
                   /\ c1.trace[i - 1].row = ReadRow(c1)
                   /\ c2.trace[j - 1].row = ReadRow(c1)
                   /\ c1.trace[i].row.accessToken # c2.trace[j].row.accessToken
                   /\ Key(c1).accessToken = c2.trace[j].row.accessToken


----------------------------------------------------------------------------
(* C23 *)

\* C23: the SSE transport is one global handle that every GET /sse
\* replaces: a POST /messages is handed to the transport of the most recent
\* connection and to no other, and before any connection it is refused
\* with HTTP 400.
C23_MessagesGoToLatestTransport ==
    last.entry = "sse" =>
        IF transport = 0
        THEN /\ last.via = 0
             /\ last.resp.status = 400
             /\ last.resp.kind = "http"
        ELSE /\ last.via = transport
             /\ last.resp.status # 400

\* A message posted after the second connection went to the second
\* transport, not to the first.
C23_Witness ==
    /\ last.entry = "sse"
    /\ transport = 2
    /\ last.via = 2
    /\ last.msg.method = "tools/list"
    /\ last.resp.kind = "result"


----------------------------------------------------------------------------
(* C24 *)

\* C24: a POST /mcp whose body is not a JSON object is answered with the
\* JSON-RPC error -32700 with id null, and nothing is dispatched.
C24_UnparsableBodyIsParseError ==
    (last.entry \in Routers /\ last.body \in Bodies) =>
        /\ last.resp.kind = "error"
        /\ last.resp.code = -32700
        /\ last.resp.id = "null"
        /\ last.trace = <<>>


----------------------------------------------------------------------------
(* C25 *)

\* Discovery has visited every file of the directory.
Discovered == loadIdx = Len(files)

\* The files that export both parts, in directory order.
Complete ==
    SelectSeq([i \in 1..Len(files) |-> i],
              LAMBDA i : /\ files[i].script
                         /\ files[i].name # ABSENT
                         /\ files[i].handler)

Registered(n) == n \in Range(tools) /\ n \in toolHandlers

\* C25: once discovery is over, a name is registered (listed, and with a
\* handler) if and only if some scanned module exports a descriptor of that
\* name together with a callable handler; a module that lacks a part does
\* not stop the modules after it from being registered; and the tool list
\* is in registration order.
C25_RegisteredIffBothParts ==
    Discovered =>
        /\ \A n \in ModuleNames \cup Range(tools) \cup toolHandlers :
               Registered(n) <=>
                   \E i \in 1..Len(files) :
                       /\ files[i].script
                       /\ files[i].name = n
                       /\ n # ABSENT
                       /\ files[i].handler
        /\ tools = [k \in 1..Len(Complete) |-> files[Complete[k]].name]

\* A module without handler sits between two complete modules, and both
\* are registered, in that order.
C25_Witness ==
    /\ Discovered
    /\ Len(files) = 3
    /\ files[2].script /\ files[2].name # ABSENT /\ ~files[2].handler
    /\ tools = <<"get_weather", "GMAIL_SENDER">>
    /\ toolHandlers = {"get_weather", "GMAIL_SENDER"}

----------------------------------------------------------------------------
(* C26 *)

\* The last complete module of the directory that exports name n.
LastExporting(n) ==
    CHOOSE i \in Range(Complete) :
        /\ files[i].name = n
        /\ \A j \in Range(Complete) : files[j].name = n => j <= i

\* C26: tool names are a unique key of the registry: the tool list never
\* holds two descriptors of one name, and for a name that several modules
\* register, the listed descriptor and the handler both come from the
\* latest of them.
C26_NamesAreUnique ==
    /\ \A i, j \in 1..Len(tools) : tools[i] = tools[j] => i = j
    /\ Discovered =>
           \A n \in toolHandlers :
               /\ \A r \in origin.toolHandlers :
                      r.name = n => r.file = LastExporting(n)
               /\ \A k \in 1..Len(tools) :
                      tools[k] = n => origin.tools[k] = LastExporting(n)


----------------------------------------------------------------------------
(* C27 *)

\* A tools/list or tools/call Request posted to POST /mcp with no userId
\* in the query string.
WithoutUserId ==
    /\ OnRouter
    /\ last.userId = ABSENT
    /\ ValidMarker
    /\ IsRequest
    /\ last.msg.method \in {"tools/list", "tools/call"}

\* C27: a tools/list or tools/call Request without userId is answered with
\* a JSON-RPC error before any subscription lookup and before any handler
\* runs: no tool list is returned and no tool is executed.
C27_NoUserIdIsRejected ==
    WithoutUserId =>
        /\ last.resp.kind = "error"
        /\ ~TraceHas({"userTool.findMany"} \cup HandlerEffects)


----------------------------------------------------------------------------
(* C28 *)

KeysOf(store) == {<<r.userId, r.toolId>> : r \in store}

\* C28: no step of an invocation creates or deletes a Credential record:
\* it leaves the set of (user, tool) keys of the store as it found it, and
\* a record it changes is the record of the invocation's own (user, tool),
\* written after its refresh call succeeded.
C28_CoreOnlyRefreshesRecords ==
    [][calls' # calls =>
          /\ KeysOf(accessKey') = KeysOf(accessKey)
          /\ \A r \in accessKey :
                 r \notin accessKey' =>
                     \E s \in Slots :
                         /\ Wrote(s)
                         /\ r.userId = calls[s].userId
                         /\ r.toolId = ToolOf(calls[s].h)
                         /\ Len(calls[s].trace) \in Refreshes(calls[s])
                         /\ ~Failed(calls[s], Len(calls[s].trace))]_vars

\* An invocation has returned after its refresh was written: the store
\* holds one record, under the key it was read from, with other tokens.
C28_Witness ==
    \E s \in Slots :
        LET c == calls[s] IN
        /\ c.pc = "done"
        /\ HasRead(c)
        /\ \E i \in Updates(c) :
               /\ Refreshed(c, i)
               /\ accessKey = {c.trace[i].row}
               /\ KeysOf(accessKey) = KeysOf({ReadRow(c)})
               /\ c.trace[i].row.accessToken # ReadRow(c).accessToken


----------------------------------------------------------------------------
(* C29 *)

\* C29: every tools/list result, from POST /mcp or from the MCP server
\* behind the SSE channel, holds only tools for which the requesting user
\* has a UserTool row; the server behind the SSE channel never answers with
\* the whole registry.
C29_EveryListIsFiltered ==
    (/\ last.entry \in Routers \cup {"sse"}
     /\ last.msg.method = "tools/list"
     /\ last.resp.kind = "result")
        => \A t \in Range(last.resp.result.tools) :
               Subscribed(last.userId, t)


----------------------------------------------------------------------------
(* C30 *)

\* A tools/call Request to POST /mcp whose arguments hold a userId member.
ForgedCall ==
    /\ OnRouter
    /\ last.msg.method = "tools/call"
    /\ last.msg.params.present
    /\ last.msg.params.argsUserId # ABSENT

\* C30: the identity of the authorization lookup and of the handler is the
\* userId of the query string, never a userId member of params.arguments:
\* the lookup and every effect of the handler are made for the query
\* string's user, the decision is the one of that user's rows whatever
\* arguments.userId is, and the argument object the handler is called with
\* has no userId member.
C30_IdentityIsTheQueryString ==
    ForgedCall =>
        /\ \A i \in 1..Len(last.trace) :
               /\ last.trace[i].user = last.userId
               /\ last.trace[i].ev = "userTool.findMany" =>
                      (last.trace[i].found <=>
                           \E r \in FindMany(last.userId) :
                               r.toolId = last.msg.params.name)
        /\ TraceHas({"handler"}) =>
               \E r \in FindMany(last.userId) :
                   r.toolId = last.msg.params.name
        /\ last.toolArgs.userId = ABSENT

\* u1 calls a tool it has subscribed with arguments.userId = u2, who has
\* no row: the handler runs for u1 and is given no userId member.
C30_Witness ==
    /\ ForgedCall
    /\ last.userId = "u1"
    /\ last.msg.params.argsUserId = "u2"
    /\ ~\E r \in userTool : r.userId = "u2"
    /\ TraceHas({"handler"})
    /\ last.toolArgs.object
    /\ last.resp.kind = "result"

\* u1, who has no row, calls a tool that u2 has subscribed with
\* arguments.userId = u2, and is denied.
C30_WitnessDenied ==
    /\ ForgedCall
    /\ last.userId = "u1"
    /\ last.msg.params.argsUserId = "u2"
    /\ Subscribed("u2", last.msg.params.name)
    /\ ~\E r \in userTool : r.userId = "u1"
    /\ ~TraceHas({"handler"})
    /\ TraceHas({"userTool.findMany"})


----------------------------------------------------------------------------
(* C31 *)

\* The refresh token now stored was rotated in by a settled write of the
\* invocation in slot s.
RotatedInBy(s) ==
    \E i \in Updates(calls[s]) :
        /\ Refreshed(calls[s], i)
        /\ calls[s].trace[i - 1].refresh # NoToken
        /\ calls[s].trace[i - 1].refresh = Key(calls[s]).refreshToken

\* C31: when two invocations for one (user, tool) both refresh, the stored
\* credential is the result of one refresh: a settled write stores the
\* access token of the writer's refresh, and its refresh token when it
\* rotated one; when it did not, a refresh token that the other invocation
\* rotated in stays in the store and is not replaced by the older one the
\* writer read at its start.
C31_RotatedTokenSurvives ==
    [][\A s, o \in Slots :
          (s # o /\ Wrote(s) /\ RotatedInBy(o)) =>
              LET c == calls[s]
                  stored == FindUnique(c.userId, ToolOf(c.h))
              IN  /\ stored'.accessToken = c.newAccessToken
                  /\ stored'.refreshToken =
                         IF c.newRefreshToken # NoToken
                         THEN c.newRefreshToken
                         ELSE stored.refreshToken]_vars


----------------------------------------------------------------------------
(* C32 *)

\* Every read of the credential store the invocation made was answered.
StoreAnswered(c) ==
    \A i \in Steps(c, "accessKey.findUnique") : ~Failed(c, i)

\* C32: every invocation of a provider-backed handler makes at most two
\* provider calls and at most two refresh calls, whatever the provider
\* answers, and when it is over it has returned a tool result: it has not
\* thrown.
C32_EndsWithToolResult ==
    \A s \in Slots :
        LET c == calls[s] IN
        /\ Cardinality(Providers(c)) <= 2
        /\ Cardinality(Refreshes(c)) <= 2
        /\ (c.pc = "done" /\ StoreAnswered(c)) =>
               /\ ~c.out.threw
               /\ c.out.result.kind # "none"


----------------------------------------------------------------------------
(* C33 *)

\* Provider call i of invocation c was made with the access token that
\* its refresh call j returned.
UsesRefreshed(c, i, j) ==
    /\ i \in Providers(c)
    /\ j \in Refreshes(c)
    /\ j < i
    /\ c.trace[j].access # NoToken
    /\ c.trace[i].token = c.trace[j].access

\* C33: a provider call made with a refreshed access token comes after the
\* settled store write of that token; and when that provider call fails
\* and ends the invocation, the handler returns an isError result while
\* the store still holds the refreshed token.
C33_RefreshedTokenIsStoredFirst ==
    \A s \in Slots :
        LET c == calls[s] IN
        \A i, j \in 1..Len(c.trace) :
            UsesRefreshed(c, i, j) =>
                /\ \E k \in Updates(c) :
                       /\ j < k /\ k < i
                       /\ ~Failed(c, k)
                       /\ c.trace[k].row.accessToken = c.trace[i].token
                /\ (c.pc = "done" /\ i = Len(c.trace) /\ Failed(c, i)) =>
                       /\ ~c.out.threw
                       /\ c.out.result.isError
                       /\ Key(c).accessToken = c.trace[i].token

\* A reactive refresh was written, the retry with the new token failed,
\* and the invocation is over.
C33_Witness ==
    \E s \in Slots :
        LET c == calls[s] IN
        /\ c.pc = "done"
        /\ c.phase = "retry"
        /\ \E j \in Refreshes(c) :
               /\ UsesRefreshed(c, Len(c.trace), j)
               /\ Failed(c, Len(c.trace))
               /\ Key(c).accessToken = c.trace[j].access
               /\ Key(c) # ReadRow(c)
        /\ c.out.result.isError


----------------------------------------------------------------------------
(* C34 *)

\* What the two gate operations answer for user u and tool t against the
\* store as it is now.
Lists(u, t) == t \in Range(getToolsForUser(u, tools, "ok").result.tools)
Denies(u, t) ==
    handleToolCall(t, argsWithUser(NoArgs, u), "ok", "sent").result
        = Denied(t)

\* The request in `last` is a tools/list or tools/call by a user, it has
\* passed the envelope checks and the store has answered.
GateAnswered ==
    /\ OnRouter
    /\ last.userId \in Users
    /\ last.msg.method \in {"tools/list", "tools/call"}
    /\ last.resp.kind = "result"

\* C34: the two gate operations use one rule: against the same store, a
\* registered tool T is in U's tools/list result if and only if U's
\* tools/call of T is not answered with the access-denied result.
C34_ListAndCallAgree ==
    GateAnswered =>
        /\ last.msg.method = "tools/list" =>
               \A t \in Range(tools) :
                   t \in Range(last.resp.result.tools)
                       <=> ~Denies(last.userId, t)
        /\ (last.msg.method = "tools/call"
            /\ last.msg.params.name \in Range(tools)) =>
               (last.resp.result # Denied(last.msg.params.name)
                    <=> Lists(last.userId, last.msg.params.name))

\* With both tools registered, a user lists the one it has a row for, not
\* authorized, and not the other, for which another user has a row.
C34_Witness ==
    /\ GateAnswered
    /\ last.msg.method = "tools/list"
    /\ Len(tools) = 2
    /\ Len(last.resp.result.tools) = 1
    /\ \E r \in userTool : r.userId = last.userId /\ ~r.authorized
    /\ \E r \in userTool :
           r.userId # last.userId /\ ~Subscribed(last.userId, r.toolId)


----------------------------------------------------------------------------
(* C35 *)

\* C35: every envelope posted to POST /mcp gets one response: an empty
\* 204, or a body with a result, or a body with an error; and the response
\* to a Request (valid marker, method and id) carries the Request's id.
C35_OneResponseWithRequestId ==
    OnRouter =>
        /\ last.resp.kind \in {"empty", "result", "error"}
        /\ last.resp.kind = "empty" <=> last.resp.status = 204
        /\ last.resp.kind = "result" => last.resp.result # NoResult
        /\ last.resp.kind # "result" => last.resp.result = NoResult
        /\ (ValidMarker /\ IsRequest) =>
               /\ last.resp.kind # "empty"
               /\ last.resp.id = last.msg.id

----------------------------------------------------------------------------
(* C36 *)

\* C36: no request is dispatched against a partially loaded registry:
\* whenever a tools/list or tools/call is answered, loadAllTools has
\* visited every file of the directory.
C36_AnsweredAfterDiscovery ==
    (/\ OnRouter
     /\ last.msg.method \in {"tools/list", "tools/call"}
     /\ last.resp.kind \in {"result", "error"})
        => Discovered


----------------------------------------------------------------------------
(* C37 *)

\* C37: a -32600 rejection carries the id of the rejected envelope
\* whenever the envelope has one, the id 0 included, and the id null only
\* when the envelope has none.
C37_RejectionEchoesId ==
    (/\ OnRouter
     /\ last.resp.kind = "error"
     /\ last.resp.code = -32600)
        => last.resp.id = IF Has(last.msg.id) THEN last.msg.id ELSE "null"


----------------------------------------------------------------------------
(* Vocabulary of the artifact properties *)

\* The call that `artifactTool.last` holds: who made it and what for.
ArtifactCall(action) ==
    /\ artifactTool.last.text.kind # "none"
    /\ artifactTool.last.args.action = action

\* The texts that start with "Error:".
ErrorTexts ==
    {"missing fields", "id required", "not found", "no permission",
     "unknown action", "thrown"}

\* In the step from this state to the next, the handler is called and
\* returns a text that starts with "Error:".
ReturnsErrorText ==
    /\ artifactTool.last.text.kind = "none"
    /\ artifactTool'.last.text.kind \in ErrorTexts

----------------------------------------------------------------------------
(* C38 *)

\* C38: an update or delete by a user of an artifact whose recorded owner
\* is another user is refused, and every call of the artifact handler that
\* returns an error text (refused, missing id, unknown id, missing create
\* fields, unknown action) leaves the artifact store as it was.
C38_ErrorLeavesStoreUnchanged ==
    [][/\ ReturnsErrorText => artifactTool'.artifacts = artifactTool.artifacts
       /\ \A i \in 1..Len(artifactTool.artifacts) :
              LET a == artifactTool.artifacts[i]
                  l == artifactTool'.last
              IN  (/\ artifactTool.last.text.kind = "none"
                   /\ l.text.kind # "none"
                   /\ l.args.action \in {"update", "delete"}
                   /\ l.args.id = a.id
                   /\ l.userId \in Users /\ a.userId \in Users
                   /\ l.userId # a.userId)
                      => /\ l.text.kind = "no permission"
                         /\ artifactTool'.artifacts = artifactTool.artifacts
      ]_vars

----------------------------------------------------------------------------
(* C39 *)

\* C39: a get or list by a user never returns the title or the content of
\* an artifact whose recorded owner is another user.
C39_NoForeignArtifactShown ==
    (ArtifactCall("get") \/ ArtifactCall("list")) =>
        LET l == artifactTool.last IN
        \A k \in 1..Len(l.text.shows) :
            (l.userId \in Users /\ l.text.shows[k].owner \in Users)
                => l.text.shows[k].owner = l.userId


====
